---- MODULE Spec2Model ----
(***************************************************************************)
(* Model of the algorithmic core of movie-editor: the segment extractor    *)
(* and duration clamper (src/src/service/segment_service.py), the position *)
(* smoother (src/src/model/landmark_detector/base.py), the crop rectangle  *)
(* placer (src/src/service/cropping.py), the zoom resolver                 *)
(* (src/src/service/zoom_service.py), the landmark detection               *)
(* (src/src/service/detector/landmark_detector_service.py), the effective  *)
(* fps (src/src/service/video_service.py) and EditMovie.run                *)
(* (src/src/edit_movie.py).                                                *)
(*                                                                         *)
(* Numbers.  The program computes with Python floats.  The model computes  *)
(* with exact fixed-point integers:                                        *)
(*   - a time is a whole number of ticks, TicksPerSec ticks to the second, *)
(*     and fps is drawn from the divisors of TicksPerSec, so that i / fps  *)
(*     is exact;                                                           *)
(*   - a coordinate of a landmark position is a whole number of units of   *)
(*     1 / CoordScale, CoordScale a common multiple of every possible      *)
(*     number of averaged values, so that sum / len is exact;              *)
(*   - a normalised position or an anchor ratio is k / RatioDen;           *)
(*   - a zoom ratio is carried as its square, a fraction in lowest terms,  *)
(*     so that math.sqrt is exact; an effective fps is such a fraction.    *)
(* Floating-point rounding is therefore outside the model.                 *)
(***************************************************************************)
EXTENDS Integers, Sequences, FiniteSets, TLC

VARIABLES
    pc,                 \* which operation has run: position in the caller
    \* ---- segment extractor / duration clamper
    mask,               \* List[bool], one entry per sampled frame
    fps,                \* fps of the mask (frames per second, > 0)
    min_keep_sec,       \* in ticks
    pad_sec,            \* in ticks
    merge_gap_sec,      \* in ticks
    raw_segments,       \* local of create_segments_from_mask
    filtered_segments,  \* local of create_segments_from_mask
    merged_segments,    \* local of create_segments_from_mask
    segments,           \* the extractor's result, the clamper's input
    duration,           \* in ticks; NoValue until the clamper is called
    clamped,            \* the clamper's result
    raised,             \* the exception the extractor ended with, NoValue if none
    \* ---- position smoother
    positions,          \* List[Optional[Tuple[float, float]]]
    window_size,        \* int >= 1
    smoothed,           \* the smoother's result
    \* ---- crop rectangle placer
    orig_size,          \* <<orig_w, orig_h>>, pixels
    crop_size,          \* <<crop_w, crop_h>>, pixels
    center,             \* <<cx, cy>>, in units of 1 / RatioDen pixel
    anchor,             \* <<landmark_horizontal_ratio, landmark_vertical_ratio>>, in 1 / RatioDen
    crop_position,      \* the placer's result <<x1, y1, adjusted>>, pixels
    \* ---- zoom resolver
    sizes,              \* List[Optional[Tuple[float, float]]]
    auto_zoom,          \* config.auto_zoom
    target_landmark_ratio, \* config.target_landmark_ratio, a fraction <<n, d>>
    crop_zoom_ratio,    \* config.crop_zoom_ratio, carried as its square
    zoom_ratio,         \* the resolver's result, carried as its square
    \* ---- landmark detection
    bounding_boxes,     \* per sampled frame: Optional[List[BoundingBox]]
    min_area_ratio,     \* in the units of BoundingBox.area
    hand_mask,          \* the result of detect_mask
    landmark_info,      \* the result of extract_landmark_info
    \* ---- effective fps
    original_fps,       \* CAP_PROP_FPS of the source, 0 when unknown
    sampling_fps,       \* the requested sampling fps
    sampling_step,      \* every sampling_step-th frame is processed
    effective_fps,      \* a fraction <<n, d>>
    \* ---- EditMovie.run (its mask, fps, segments and duration are those above)
    is_ignore_head_detect,
    head_mask,          \* self.head_mask
    combined_mask,      \* self.combined_mask
    source_clip,        \* "unopened", "open" or "closed"
    performed,          \* the effects of the run so far, in order
    \* ---- cropper (its positions, sizes, zoom, frame size and duration are those above)
    landmark_fps,       \* the effective fps the detection returned
    smooth_positions_fn, \* TRUE when a smoothing function is given, FALSE for None
    failing_frames,     \* the frame indices for which subclipped / cropped raises
    valid_frames,       \* the indices whose position is not None
    clips,              \* the crop clips, in the order of their creation
    cropped_clip,       \* the cropper's result: None or Some(concatenation)
    \* ---- frame loop and generator hand-off
    total_frames,       \* the number of frames cap.read() delivers
    idx,                \* index of the next source frame
    processed_frames,   \* counter of the generator
    processed_indices,  \* the source indices handed to the detector, in order
    generator,          \* "none", "created", "suspended" or "finished"
    returned,           \* what detect_mask returned: <<>> or <<mask, eff_fps>>
    exception           \* the exception detect_mask ended with, "none" if none

segVars == <<mask, fps, min_keep_sec, pad_sec, merge_gap_sec, raw_segments,
             filtered_segments, merged_segments, segments, duration, clamped,
             raised>>
smoothVars == <<positions, window_size, smoothed>>
cropVars == <<orig_size, crop_size, center, anchor, crop_position>>

zoomVars == <<sizes, auto_zoom, target_landmark_ratio, crop_zoom_ratio, zoom_ratio>>

detectVars == <<bounding_boxes, min_area_ratio, hand_mask, landmark_info>>

fpsVars == <<original_fps, sampling_fps, sampling_step, effective_fps>>

runVars == <<is_ignore_head_detect, head_mask, combined_mask, source_clip, performed>>

cropperVars == <<landmark_fps, smooth_positions_fn, failing_frames, valid_frames,
                 clips, cropped_clip>>

loopVars == <<total_frames, idx, processed_frames, processed_indices, generator,
              returned, exception>>

vars == <<pc, segVars, smoothVars, cropVars, zoomVars, detectVars, fpsVars, runVars,
          cropperVars, loopVars>>

NoValue == "none"

\* Python's None in a list of positions (a position is a pair <<x, y>>)
None == <<>>

\* ---------------------------------------------------------------- bounds
MaxLen == 5          \* longest mask
MaxFps == 2          \* largest fps of a mask
MaxParam == 4        \* min_keep_sec, pad_sec, merge_gap_sec: 0..MaxParam quarter seconds
MaxDuration == 3     \* video duration: 0..MaxDuration seconds
MaxSegs == 2         \* longest arbitrary segment list given to the clamper
MaxTime == 2         \* arbitrary segment bounds: -1..MaxTime seconds
MaxFrames == 3       \* longest list of positions
MaxCoord == 2        \* position coordinates: 0..MaxCoord
MaxWindow == 3       \* window_size: 1..MaxWindow
MaxSampled == 2      \* most sampled frames of a video given to the detector
MaxOrigFps == 12     \* source fps: -1..MaxOrigFps
MaxSampleFps == 5    \* sampling fps: 1..MaxSampleFps
MaxRunLen == 2       \* longest hand or head mask of a run
MaxSide == 3         \* frame width and height: 1..MaxSide pixels
RatioDen == 2        \* anchor ratios and sub-pixel centres: steps of 1 / RatioDen
MaxCropFrames == 2   \* most sampled frames of a cropped video
MaxSourceFrames == 4 \* most frames of a source video in the frame loop

\* ticks per second: a unit of measure (1 tick = 0.05 s)
TicksPerSec == 4 * 5

Min(a, b) == IF a <= b THEN a ELSE b
Max(a, b) == IF a >= b THEN a ELSE b

\* all sequences over S of length 0..n
SeqsUpTo(S, n) == UNION {[1..k -> S] : k \in 0..n}

FpsValues == {f \in 1..MaxFps : TicksPerSec % f = 0}
DegenerateFpsValues == {0} \cup {-f : f \in FpsValues}
ParamValues == {k * (TicksPerSec \div 4) : k \in 0..MaxParam}
DurationValues == {k * TicksPerSec : k \in 0..MaxDuration} \cup {10 * TicksPerSec}
TimeValues == {k * TicksPerSec : k \in -1..MaxTime}

\* dataclass Segment(start, end)
Segment(start, end) == [start |-> start, end |-> end]

\* Python's i / fps, in ticks (i >= 0, fps # 0; a negative fps gives a time <= 0)
TimeOfFrame(i, f) ==
    IF f > 0 THEN (i * TicksPerSec) \div f ELSE -((i * TicksPerSec) \div (-f))

\* ------------------------------------------------------ segment extractor
\* inner while loop: the first index j >= j0 with j >= n or not mask[j]
\* (Python indices are 0-based, TLA+ sequences 1-based: mask[j] is m[j + 1])
RECURSIVE ScanRun(_, _)
ScanRun(m, j) ==
    IF j < Len(m) /\ m[j + 1] THEN ScanRun(m, j + 1) ELSE j

convert_run_end_inclusive(i, j, f) == Segment(TimeOfFrame(i, f), TimeOfFrame(j - 1, f))

\* the outer loop reaches a frame with mask[i] true, and start = i / fps is
\* evaluated, with fps = 0
divides_by_zero(m, f) == f = 0 /\ \E k \in 1..Len(m) : m[k]

\* start = i / fps; end = j / fps; Segment(start, end)
convert_run(i, j, f) == Segment(TimeOfFrame(i, f), TimeOfFrame(j, f))

\* outer while loop of _convert_mask_to_raw_segments, from index i on
RECURSIVE ConvertLoop(_, _, _, _)
ConvertLoop(m, f, i, segs) ==
    IF i >= Len(m) THEN segs
    ELSE IF ~m[i + 1] THEN ConvertLoop(m, f, i + 1, segs)
    ELSE LET j == ScanRun(m, i + 1)
         IN  ConvertLoop(m, f, j, Append(segs, convert_run(i, j, f)))

convert_mask_to_raw_segments(m, f) == ConvertLoop(m, f, 0, <<>>)

filter_short_segments_keep_all(segs, mk) == segs

filter_short_segments_strict(segs, mk) ==
    SelectSeq(segs, LAMBDA s : (s.end - s.start) > mk)

filter_short_segments(segs, mk) ==
    SelectSeq(segs, LAMBDA s : (s.end - s.start) >= mk)

\* the for loop of _merge_close_segments over segments[k..], with the
\* running segment cur and the list merged so far
RECURSIVE MergeLoop(_, _, _, _, _)
MergeLoop(segs, gap, k, cur, merged) ==
    IF k > Len(segs) THEN Append(merged, cur)
    ELSE IF (segs[k].start - cur.end) <= gap
         THEN MergeLoop(segs, gap, k + 1, Segment(cur.start, segs[k].end), merged)
         ELSE MergeLoop(segs, gap, k + 1, segs[k], Append(merged, cur))

RECURSIVE MergeLoopStrict(_, _, _, _, _)
MergeLoopStrict(segs, gap, k, cur, merged) ==
    IF k > Len(segs) THEN Append(merged, cur)
    ELSE IF (segs[k].start - cur.end) < gap
         THEN MergeLoopStrict(segs, gap, k + 1, Segment(cur.start, segs[k].end), merged)
         ELSE MergeLoopStrict(segs, gap, k + 1, segs[k], Append(merged, cur))

merge_close_segments_strict(segs, gap) ==
    IF segs = <<>> THEN <<>> ELSE MergeLoopStrict(segs, gap, 2, segs[1], <<>>)

merge_close_segments(segs, gap) ==
    IF segs = <<>> THEN <<>> ELSE MergeLoop(segs, gap, 2, segs[1], <<>>)

add_padding_unclamped(segs, pad) ==
    [k \in 1..Len(segs) |-> Segment(segs[k].start - pad, segs[k].end + pad)]

Abs(a) == IF a < 0 THEN -a ELSE a

add_padding_abs(segs, pad) ==
    [k \in 1..Len(segs) |-> Segment(Abs(segs[k].start - pad), segs[k].end + pad)]

add_padding(segs, pad) ==
    [k \in 1..Len(segs) |-> Segment(Max(0, segs[k].start - pad), segs[k].end + pad)]

\* the four passes of create_segments_from_mask, composed
create_segments_from_mask(m, f, mk, pad, gap) ==
    add_padding(
        merge_close_segments(
            filter_short_segments(convert_mask_to_raw_segments(m, f), mk), gap),
        pad)

\* ------------------------------------------------------- duration clamper
clamp_one_swapped(s, d) ==
    LET start == Max(0, Min(s.start, d))
        end == Max(0, Min(s.end, d))
    IN  IF end > start THEN <<Segment(end, start)>> ELSE <<>>

clamp_one_keep_empty(s, d) ==
    LET start == Max(0, Min(s.start, d))
        end == Max(0, Min(s.end, d))
    IN  IF end >= start THEN <<Segment(start, end)>> ELSE <<>>

\* body of the for loop: what one input segment appends to clamped
clamp_one(s, d) ==
    LET start == Max(0, Min(s.start, d))
        end == Max(0, Min(s.end, d))
    IN  IF end > start THEN <<Segment(start, end)>> ELSE <<>>

RECURSIVE ClampLoop(_, _, _, _)
ClampLoop(segs, d, k, out) ==
    IF k > Len(segs) THEN out
    ELSE ClampLoop(segs, d, k + 1, out \o clamp_one(segs[k], d))

clamp_segments_to_duration(segs, d) == ClampLoop(segs, d, 1, <<>>)

\* --------------------------------------------- fused segment implementations
\* Segment.bools_to_segments (model/segment.py): the run-length loop, from
\* index i on; j scans to the end of the run that starts at i
RECURSIVE RunEnd(_, _)
RunEnd(m, j) == IF j < Len(m) /\ m[j + 1] THEN RunEnd(m, j + 1) ELSE j

RECURSIVE BoolsLoop(_, _, _, _)
BoolsLoop(m, f, i, segs) ==
    IF ~(i < Len(m)) THEN segs
    ELSE IF ~m[i + 1] THEN BoolsLoop(m, f, i + 1, segs)
    ELSE LET j == RunEnd(m, i + 1)
             start == TimeOfFrame(i, f)
             end == TimeOfFrame(j, f)
         IN  BoolsLoop(m, f, j, Append(segs, Segment(start, end)))

\* for s in segments[1:]: ... of bools_to_segments
RECURSIVE BoolsMerge(_, _, _, _, _)
BoolsMerge(segs, gap, k, cur, merged) ==
    IF k > Len(segs) THEN Append(merged, cur)
    ELSE LET s == segs[k]
         IN  IF (s.start - cur.end) <= gap
             THEN BoolsMerge(segs, gap, k + 1, Segment(cur.start, s.end), merged)
             ELSE BoolsMerge(segs, gap, k + 1, s, Append(merged, cur))

\* the variant that pads before it merges
bools_to_segments_pad_first(m, f, mk, pad, gap) ==
    LET raw == BoolsLoop(m, f, 0, <<>>)
        kept == SelectSeq(raw, LAMBDA s : (s.end - s.start) >= mk)
        padded == [k \in 1..Len(kept) |->
                      Segment(Max(0, kept[k].start - pad), kept[k].end + pad)]
    IN  IF padded # <<>> THEN BoolsMerge(padded, gap, 2, padded[1], <<>>) ELSE <<>>

\* Segment.bools_to_segments(mask, fps, min_keep_sec, pad_sec, merge_gap_sec)
bools_to_segments(m, f, mk, pad, gap) ==
    LET raw == BoolsLoop(m, f, 0, <<>>)
        kept == SelectSeq(raw, LAMBDA s : (s.end - s.start) >= mk)
        merged == IF kept # <<>> THEN BoolsMerge(kept, gap, 2, kept[1], <<>>) ELSE <<>>
    IN  [k \in 1..Len(merged) |->
            Segment(Max(0, merged[k].start - pad), merged[k].end + pad)]

\* Segment.clamp_segments(segments, duration)
RECURSIVE clamp_segments_from(_, _, _, _)
clamp_segments_from(segs, d, k, out) ==
    IF k > Len(segs) THEN out
    ELSE LET start == Max(0, Min(segs[k].start, d))
             end == Max(0, Min(segs[k].end, d))
         IN  clamp_segments_from(segs, d, k + 1,
                                 IF end > start THEN Append(out, Segment(start, end)) ELSE out)

clamp_segments(segs, d) == clamp_segments_from(segs, d, 1, <<>>)

\* service/segment/main.py: the module-level functions bools_to_segments and
\* clamp_segments, the same statements as the methods of Segment
main_bools_to_segments(m, f, mk, pad, gap) ==
    LET segs == BoolsLoop(m, f, 0, <<>>)
        kept == SelectSeq(segs, LAMBDA s : (s.end - s.start) >= mk)
        merged == IF kept # <<>> THEN BoolsMerge(kept, gap, 2, kept[1], <<>>) ELSE <<>>
        padded == [k \in 1..Len(merged) |->
                      Segment(Max(0, merged[k].start - pad), merged[k].end + pad)]
    IN  padded

main_clamp_segments(segs, d) == clamp_segments_from(segs, d, 1, <<>>)

\* ------------------------------------------------------- position smoother
\* config.DEFAULT_SMOOTH_WINDOW_SIZE
DEFAULT_SMOOTH_WINDOW_SIZE == 1

RECURSIVE Gcd(_, _)
Gcd(a, b) == IF b = 0 THEN a ELSE Gcd(b, a % b)

RECURSIVE LcmUpTo(_)
LcmUpTo(n) == IF n <= 1 THEN 1 ELSE (LcmUpTo(n - 1) * n) \div Gcd(LcmUpTo(n - 1), n)

\* one coordinate unit is 1 / CoordScale: the mean of up to MaxFrames
\* coordinates that are multiples of CoordScale is a whole number
CoordScale == LcmUpTo(MaxFrames)
CoordValues == {c * CoordScale : c \in 0..MaxCoord}
PositionValues == {<<x, y>> : x \in CoordValues, y \in CoordValues}

\* sum(p[c] for p in valid_positions)
RECURSIVE SumCoord(_, _)
SumCoord(ps, c) == IF ps = <<>> THEN 0 ELSE ps[1][c] + SumCoord(Tail(ps), c)

window_positions_full_width(P, i, w) ==
    LET start_idx == Max(0, i - w)
        end_idx == Min(Len(P), i + w + 1)
    IN  SelectSeq(SubSeq(P, start_idx + 1, end_idx), LAMBDA p : p # None)

window_without_self(P, i, w) ==
    LET start_idx == Max(0, i - w \div 2)
        end_idx == Min(Len(P), i + w \div 2 + 1)
        window_idx == SelectSeq([k \in 1..(end_idx - start_idx) |-> start_idx + k - 1],
                         LAMBDA j : j # i)
    IN  SelectSeq([k \in 1..Len(window_idx) |-> P[window_idx[k] + 1]], LAMBDA p : p # None)

\* the variant whose half window is window_size / 2 rounded up
window_positions_half_up(P, i, w) ==
    LET start_idx == Max(0, i - (w + 1) \div 2)
        end_idx == Min(Len(P), i + (w + 1) \div 2 + 1)
    IN  SelectSeq(SubSeq(P, start_idx + 1, end_idx), LAMBDA p : p # None)

\* valid_positions for the Python index i: the non-None entries of
\* positions[start_idx:end_idx]
window_positions(P, i, w) ==
    LET start_idx == Max(0, i - w \div 2)
        end_idx == Min(Len(P), i + w \div 2 + 1)
    IN  SelectSeq(SubSeq(P, start_idx + 1, end_idx), LAMBDA p : p # None)

\* (avg_x, avg_y), or pos when valid_positions is empty
average_or_self(valid_positions, pos) ==
    IF valid_positions # <<>>
    THEN <<SumCoord(valid_positions, 1) \div Len(valid_positions),
           SumCoord(valid_positions, 2) \div Len(valid_positions)>>
    ELSE pos

smooth_entry_fill_gaps(P, i, w) ==
    average_or_self(window_positions(P, i, w), P[i + 1])

\* one iteration of the for loop: what index i appends to smoothed
smooth_entry(P, i, w) ==
    IF P[i + 1] = None THEN None
    ELSE average_or_self(window_positions(P, i, w), P[i + 1])

smooth_positions(P, w) == [k \in 1..Len(P) |-> smooth_entry(P, k - 1, w)]

\* --------------------------------------------------- crop rectangle placer
\* the variant that rounds up
IntOf_ceiling(n) == IF n >= 0 THEN (n + RatioDen - 1) \div RatioDen ELSE -((-n) \div RatioDen)

\* Python's int(x) for x = n / RatioDen: truncation toward zero
IntOf(n) == IF n >= 0 THEN n \div RatioDen ELSE -((-n) \div RatioDen)

crop_axis_no_far_edge(c, crop, orig, ratio) ==
    LET x1 == c - crop * ratio
    IN  IF x1 < 0 THEN <<0, TRUE>> ELSE <<x1, FALSE>>

\* one axis of _calculate_crop_position, in units of 1 / RatioDen pixel:
\* <<x1 before int(), whether it was corrected>>
crop_axis(c, crop, orig, ratio) ==
    LET x1 == c - crop * ratio
    IN  IF x1 < 0 THEN <<0, TRUE>>
        ELSE IF x1 + crop * RatioDen > orig * RatioDen
             THEN <<(orig - crop) * RatioDen, TRUE>>
             ELSE <<x1, FALSE>>

\* _calculate_crop_position(cx, cy, crop_w, crop_h, orig_w, orig_h, config)
calculate_crop_position(c, crop, orig, ratios) ==
    LET h == crop_axis(c[1], crop[1], orig[1], ratios[1])
        v == crop_axis(c[2], crop[2], orig[2], ratios[2])
    IN  <<IntOf(h[1]), IntOf(v[1]), h[2] \/ v[2]>>

\* ------------------------------------------------------------ zoom resolver
\* A fraction n / d (n >= 0, d > 0) in lowest terms.
Frac(n, d) == LET g == Gcd(n, d) IN <<n \div g, d \div g>>

FracLE(a, b) == a[1] * b[2] <= b[1] * a[2]

\* Python's min(a, b) and max(a, b) on such fractions
FracMin(a, b) == IF FracLE(a, b) THEN a ELSE b
FracMax(a, b) == IF FracLE(b, a) THEN a ELSE b

\* A zoom ratio r >= 0 is carried as its square r * r, a fraction: math.sqrt(q)
\* is then carried as q itself, and comparing two ratios is comparing their
\* squares.  RatioSq gives the carried form of the ratio n / d.
RatioSq(r) == Frac(r[1] * r[1], r[2] * r[2])

\* a landmark size is <<w, h>> in units of 1 / SizeDen of the frame side
SizeDen == MaxCoord
SizeValues == (0..MaxCoord) \X (0..MaxCoord)

\* target_landmark_ratio: the default of the config, the default of the
\* function, and the top of its range
TargetValues == {<<15, 100>>, <<1, 4>>, <<1, 1>>}
\* crop_zoom_ratio: below the automatic range, the default, the top of its range
ManualValues == {<<1, 10>>, <<3, 10>>, <<1, 1>>}

valid_areas_none_as_zero(S) ==
    [k \in 1..Len(S) |-> IF S[k] = None THEN 0 ELSE S[k][1] * S[k][2]]

\* for size in sizes: if size is not None: valid_areas.append(width * height)
\* (areas in units of 1 / SizeDen^2)
RECURSIVE valid_areas(_)
valid_areas(S) ==
    IF S = <<>> THEN <<>>
    ELSE IF Head(S) = None THEN valid_areas(Tail(S))
    ELSE <<Head(S)[1] * Head(S)[2]>> \o valid_areas(Tail(S))

\* list.sort(): ascending
RECURSIVE InsertSorted(_, _)
InsertSorted(x, s) ==
    IF s = <<>> THEN <<x>>
    ELSE IF x < Head(s) THEN <<x>> \o s
    ELSE <<Head(s)>> \o InsertSorted(x, Tail(s))

RECURSIVE SortAsc(_)
SortAsc(s) == IF s = <<>> THEN <<>> ELSE InsertSorted(Head(s), SortAsc(Tail(s)))

median_area_lower_middle(areas) == SortAsc(areas)[((Len(areas) - 1) \div 2) + 1]

\* valid_areas[len(valid_areas) // 2] of the sorted list
median_area(areas) == SortAsc(areas)[(Len(areas) \div 2) + 1]

clamp_zoom_upper_only(q) == FracMin(RatioSq(<<9, 10>>), q)

\* crop_ratio = max(0.2, min(0.9, crop_ratio))
clamp_zoom(q) == FracMax(RatioSq(<<2, 10>>), FracMin(RatioSq(<<9, 10>>), q))

\* _calculate_auto_zoom_ratio(sizes, target_landmark_ratio)
calculate_auto_zoom_ratio(S, target) ==
    LET areas == valid_areas(S)
    IN  IF areas = <<>> THEN RatioSq(<<5, 10>>)
        ELSE clamp_zoom(Frac(median_area(areas) * target[2],
                             SizeDen * SizeDen * target[1]))

calculate_zoom_ratio_clamped(auto, S, target, manual) ==
    IF auto THEN calculate_auto_zoom_ratio(S, target) ELSE clamp_zoom(manual)

\* calculate_zoom_ratio(config, sizes)
calculate_zoom_ratio(auto, S, target, manual) ==
    IF auto THEN calculate_auto_zoom_ratio(S, target) ELSE manual

\* ------------------------------------------------------ landmark detection
\* Optional[T]: None is <<>>, a value x is the one-element sequence <<x>>
Some(x) == <<x>>

\* BoundingBoxService.calculate_from_landmarks: the dataclass BoundingBox built
\* from the extreme landmark coordinates.  Coordinates are even numbers of
\* units, so that (min + max) / 2 is exact.
BoundingBox(x_min, y_min, x_max, y_max) ==
    [x_min |-> x_min, y_min |-> y_min, x_max |-> x_max, y_max |-> y_max,
     width |-> x_max - x_min, height |-> y_max - y_min,
     area |-> (x_max - x_min) * (y_max - y_min),
     center_x |-> (x_min + x_max) \div 2, center_y |-> (y_min + y_max) \div 2]

\* the boxes a frame can hold: three horizontal extents, two vertical ones
BoxValues ==
    {BoundingBox(x[1], 0, x[2], y) : x \in {<<0, 2>>, <<0, 4>>, <<2, 4>>}, y \in {2, 4}}

\* min_area_ratio, in the units of BoundingBox.area: below every box, equal to
\* the area of some boxes, between two areas, above every box
MinAreaValues == {0, 8, 9, 17}

\* max_num_hands=2: MediaPipe returns at most two hands per frame
max_num_hands == 2

\* what _make_bounding_box returns for a frame: None or a list of boxes
FrameValues == {None} \cup {Some(L) : L \in SeqsUpTo(BoxValues, max_num_hands)}

is_valid_detection_strict(b, mar) == b.area > mar

\* _is_valid_detection: bounding_box.area >= min_area_ratio
is_valid_detection(b, mar) == b.area >= mar

\* HandDetectorService._get_selection_key: the right-most hand
get_selection_key(b) == b.center_x

RECURSIVE SelectLoopLastWins(_, _, _, _)
SelectLoopLastWins(boxes, mar, k, best) ==
    IF k > Len(boxes) THEN best
    ELSE IF /\ is_valid_detection(boxes[k], mar)
            /\ (best = None \/ get_selection_key(boxes[k]) >= get_selection_key(best[1]))
         THEN SelectLoopLastWins(boxes, mar, k + 1, Some(boxes[k]))
         ELSE SelectLoopLastWins(boxes, mar, k + 1, best)

\* the for loop of _select_best_detection from the k-th box on; best is
\* best_detection (None while best_key is -inf, which every key exceeds)
RECURSIVE SelectLoop(_, _, _, _)
SelectLoop(boxes, mar, k, best) ==
    IF k > Len(boxes) THEN best
    ELSE IF /\ is_valid_detection(boxes[k], mar)
            /\ (best = None \/ get_selection_key(boxes[k]) > get_selection_key(best[1]))
         THEN SelectLoop(boxes, mar, k + 1, Some(boxes[k]))
         ELSE SelectLoop(boxes, mar, k + 1, best)

\* _select_best_detection(bounding_boxes, min_area_ratio): Optional[BoundingBox]
select_best_detection(boxes, mar) == SelectLoop(boxes, mar, 1, None)

\* body of the frame loop of detect_mask: has_detection
has_detection(frame, mar) ==
    /\ frame # None
    /\ \E j \in 1..Len(frame[1]) : is_valid_detection(frame[1][j], mar)

\* the list that the for loop of LandmarkDetector.detect_mask collects: one
\* entry per frame the generator yields
detect_mask(frames, mar) == [k \in 1..Len(frames) |-> has_detection(frames[k], mar)]

\* body of the frame loop of extract_landmark_info: <<position, size, has_detection>>
extract_frame(frame, mar) ==
    LET best == IF frame = None THEN None ELSE select_best_detection(frame[1], mar)
    IN  IF best = None THEN <<None, None, FALSE>>
        ELSE <<<<best[1].center_x, best[1].center_y>>,
               <<best[1].width, best[1].height>>, TRUE>>

\* dataclass LandmarkInfo
LandmarkInfo(has, sz, pos) ==
    [has_landmark_frame |-> has, landmark_size |-> sz, landmark_position |-> pos]

\* LandmarkDetectorService.extract_landmark_info
extract_landmark_info(frames, mar) ==
    LandmarkInfo([k \in 1..Len(frames) |-> extract_frame(frames[k], mar)[3]],
                 [k \in 1..Len(frames) |-> extract_frame(frames[k], mar)[2]],
                 [k \in 1..Len(frames) |-> extract_frame(frames[k], mar)[1]])

\* ------------------------------------------------------------ effective fps
round_half_up(n, d) == (2 * n + d) \div (2 * d)

\* Python's round(n / d) for n >= 0, d > 0: to the nearest integer, a tie
\* going to the even neighbour
round(n, d) ==
    LET q == n \div d
        r == n % d
    IN  IF 2 * r < d THEN q
        ELSE IF 2 * r > d THEN q + 1
        ELSE IF q % 2 = 0 THEN q ELSE q + 1

\* the variant whose step is not floored at 1
get_effective_fps_unfloored(orig, samp) ==
    IF orig > 0
    THEN LET step == round(orig, samp)
         IN  <<step, Frac(orig, step)>>
    ELSE <<1, Frac(samp, 1)>>

\* VideoService._get_effective_fps(original_fps, sampling_fps):
\* <<sampling_step, effective_fps>>, effective_fps a fraction in lowest terms
get_effective_fps(orig, samp) ==
    IF orig > 0
    THEN LET step == Max(1, round(orig, samp))
         IN  <<step, Frac(orig, step)>>
    ELSE <<1, Frac(samp, 1)>>

\* the variant that keeps a frame whenever a hand is detected
combine_masks_hand_only(hand, head) ==
    [k \in 1..Min(Len(hand), Len(head)) |-> hand[k]]

\* ------------------------------------------------------------ EditMovie.run
\* zip(self.hand_mask, self.head_mask): has_hand and not has_head
combine_masks(hand, head) ==
    [k \in 1..Min(Len(hand), Len(head)) |-> hand[k] /\ ~head[k]]

segments_empty_never(segs) == FALSE

\* if not self.segments
segments_empty(segs) == segs = <<>>

\* min_keep_sec, pad_sec and merge_gap_sec of the extractor inside a run: zero,
\* a quarter of a second, a second
RunParamValues == {0, TicksPerSec \div 4, TicksPerSec}

\* ------------------------------------------------------------------ cropper
\* a normalised coordinate v stands for v / PosDen of the frame side
PosDen == MaxCoord * CoordScale

\* the frame sizes of the cropper: sides that are multiples of PosDen pixels,
\* so that pos[0] * orig_w is a whole number of pixels
CropFrameSizes == {<<PosDen, PosDen>>, <<2 * PosDen, PosDen>>}

\* the positions a detection reports to the cropper, and the sizes
CropPositionValues == {<<0, 0>>, <<PosDen, CoordScale>>}
CropSizeValues == {<<1, 1>>, <<MaxCoord, MaxCoord>>}

\* int(orig * zoom_ratio) for a ratio carried as its square q <= 1
IntTimesRatio(orig, q) ==
    CHOOSE k \in 0..orig : /\ k * k * q[2] <= orig * orig * q[1]
                           /\ (k + 1) * (k + 1) * q[2] > orig * orig * q[1]

\* _prepare_positions: the positions after the optional smoothing
prepare_positions(P, fn, w) == IF fn THEN smooth_positions(P, w) ELSE P

\* valid_frames = [i for i, pos in enumerate(positions) if pos is not None]
valid_frames_of(P) ==
    SelectSeq([k \in 1..Len(P) |-> k - 1], LAMBDA i : P[i + 1] # None)

\* cx, cy = pos[0] * orig_w, pos[1] * orig_h, in units of 1 / RatioDen pixel
pixel_center(pos, orig) ==
    <<(pos[1] * orig[1] * RatioDen) \div PosDen, (pos[2] * orig[2] * RatioDen) \div PosDen>>

\* the clip source_clip.subclipped(t_start, t_end).cropped(x1, y1, width, height)
CropClip(frame_idx, t_start, t_end, x1, y1, width, height) ==
    [frame_idx |-> frame_idx, t_start |-> t_start, t_end |-> t_end,
     x1 |-> x1, y1 |-> y1, width |-> width, height |-> height]

\* the variant of the loop body that does not look at the time range
crop_frame_any_range(P, frame_idx, lfps, dur, crop, orig, ratios, failing) ==
    LET t_start == TimeOfFrame(frame_idx, lfps)
        t_end == Min(TimeOfFrame(frame_idx + 1, lfps), dur)
        pos == P[frame_idx + 1]
    IN  IF pos = None THEN <<>>
        ELSE LET xy == calculate_crop_position(pixel_center(pos, orig), crop, orig, ratios)
             IN  IF frame_idx \in failing THEN <<>>
                 ELSE <<CropClip(frame_idx, t_start, t_end, xy[1], xy[2], crop[1], crop[2])>>

\* the body of the loop of _crop_frames for one frame index: the clips it appends
crop_frame(P, frame_idx, lfps, dur, crop, orig, ratios, failing) ==
    LET t_start == TimeOfFrame(frame_idx, lfps)
        t_end == Min(TimeOfFrame(frame_idx + 1, lfps), dur)
        pos == P[frame_idx + 1]
    IN  IF t_end <= t_start THEN <<>>
        ELSE IF pos = None THEN <<>>
        ELSE LET xy == calculate_crop_position(pixel_center(pos, orig), crop, orig, ratios)
             IN  IF frame_idx \in failing THEN <<>>
                 ELSE <<CropClip(frame_idx, t_start, t_end, xy[1], xy[2], crop[1], crop[2])>>

\* for frame_idx in valid_frames: ...
RECURSIVE CropLoop(_, _, _, _, _, _, _, _, _, _)
CropLoop(P, valid, k, lfps, dur, crop, orig, ratios, failing, out) ==
    IF k > Len(valid) THEN out
    ELSE CropLoop(P, valid, k + 1, lfps, dur, crop, orig, ratios, failing,
                  out \o crop_frame(P, valid[k], lfps, dur, crop, orig, ratios, failing))

\* _crop_frames(source_clip, positions, valid_frames, landmark_fps, zoom_ratio, config)
crop_frames(P, valid, lfps, dur, zoom, orig, ratios, failing) ==
    LET crop == <<IntTimesRatio(orig[1], zoom), IntTimesRatio(orig[2], zoom)>>
    IN  CropLoop(P, valid, 1, lfps, dur, crop, orig, ratios, failing, <<>>)

\* steps 3 to 5 of crop_to_landmark_center: None, or the concatenation of the clips
crop_result(valid, cs) ==
    IF valid = <<>> THEN None
    ELSE IF cs # <<>> THEN Some(cs) ELSE None

\* ------------------------------------------- frame loop and generator hand-off
\* what the detector can report for a frame of the loop: None, an empty list,
\* one box of area 16
LoopFrameValues == {None, Some(<<>>), Some(<<BoundingBox(0, 0, 4, 4)>>)}

\* the while loop from source index i on: the index of the next frame that is
\* processed (idx % step = 0), or n when cap.read() fails first
RECURSIVE next_processed(_, _, _)
next_processed(i, step, n) ==
    IF i >= n THEN n
    ELSE IF i % step # 0 THEN next_processed(i + 1, step, n)
    ELSE i

\* the index the generator continues from when it is resumed: 0 on the first
\* next(), idx + 1 after a yield
resume_idx(gen, i) == IF gen = "created" THEN 0 ELSE i + 1

\* the step the generator uses: computed by get_effective_fps on the first
\* next(), kept afterwards
resume_step(gen, step, orig, samp) ==
    IF gen = "created" THEN get_effective_fps(orig, samp)[1] ELSE step

\* the value carried by the StopIteration that generator.send(None) raises:
\* None for a generator that has already finished
stop_value(gen) == IF gen = "finished" THEN None ELSE Some(gen)

is_sampled_last_of_group(i, step) == i % step = step - 1

\* the test of the frame loop that decides whether frame idx is processed:
\* `if idx % self.sampling_step != 0: idx += 1; continue` skips the others
is_sampled(i, step) == i % step = 0

\* ------------------------------------------------------------------ state
IdleSegment ==
    /\ mask = <<>>
    /\ fps = 1
    /\ min_keep_sec = 0
    /\ pad_sec = 0
    /\ merge_gap_sec = 0
    /\ raw_segments = <<>>
    /\ filtered_segments = <<>>
    /\ merged_segments = <<>>
    /\ segments = <<>>
    /\ duration = NoValue
    /\ clamped = <<>>
    /\ raised = NoValue

IdleSmooth ==
    /\ positions = <<>>
    /\ window_size = 1
    /\ smoothed = <<>>

IdleCrop ==
    /\ orig_size = <<1, 1>>
    /\ crop_size = <<1, 1>>
    /\ center = <<0, 0>>
    /\ anchor = <<0, 0>>
    /\ crop_position = NoValue

IdleZoom ==
    /\ sizes = <<>>
    /\ auto_zoom = FALSE
    /\ target_landmark_ratio = <<1, 4>>
    /\ crop_zoom_ratio = <<1, 1>>
    /\ zoom_ratio = NoValue

IdleDetect ==
    /\ bounding_boxes = <<>>
    /\ min_area_ratio = 0
    /\ hand_mask = <<>>
    /\ landmark_info = [has_landmark_frame |-> <<>>, landmark_size |-> <<>>,
                        landmark_position |-> <<>>]

IdleFps ==
    /\ original_fps = 0
    /\ sampling_fps = 1
    /\ sampling_step = NoValue
    /\ effective_fps = NoValue

IdleRun ==
    /\ is_ignore_head_detect = FALSE
    /\ head_mask = <<>>
    /\ combined_mask = <<>>
    /\ source_clip = "unopened"
    /\ performed = <<>>

IdleCropper ==
    /\ landmark_fps = 1
    /\ smooth_positions_fn = FALSE
    /\ failing_frames = {}
    /\ valid_frames = <<>>
    /\ clips = <<>>
    /\ cropped_clip = None

IdleLoop ==
    /\ total_frames = 0
    /\ idx = 0
    /\ processed_frames = 0
    /\ processed_indices = <<>>
    /\ generator = "none"
    /\ returned = <<>>
    /\ exception = "none"

\* the end-to-end scenario: 100 frames at 10 fps, the object present in
\* frames 20..39 and 60..62
EndToEndMask == [k \in 1..100 |-> (k - 1) \in (20..39) \cup (60..62)]

\* the worked example of the run-length decode: 10 frames at 10 fps
RunLengthExampleMask ==
    <<FALSE, TRUE, TRUE, FALSE, TRUE, FALSE, FALSE, TRUE, TRUE, TRUE>>

InitSegment ==
    /\ pc = "init"
    /\ \/ /\ mask \in SeqsUpTo(BOOLEAN, MaxLen)
          /\ fps \in FpsValues
          /\ min_keep_sec \in ParamValues
          /\ pad_sec \in ParamValues
          /\ merge_gap_sec \in ParamValues
       \/ /\ mask = RunLengthExampleMask
          /\ fps = 10
          /\ min_keep_sec = 0
          /\ pad_sec = 0
          /\ merge_gap_sec = 0
       \/ /\ mask = EndToEndMask
          /\ fps = 10
          /\ min_keep_sec = TicksPerSec
          /\ pad_sec = (3 * TicksPerSec) \div 10
          /\ merge_gap_sec = TicksPerSec \div 4
    /\ raw_segments = <<>>
    /\ filtered_segments = <<>>
    /\ merged_segments = <<>>
    /\ segments = <<>>
    /\ duration = NoValue
    /\ clamped = <<>>
    /\ raised = NoValue
    /\ IdleSmooth
    /\ IdleCrop
    /\ IdleZoom
    /\ IdleDetect
    /\ IdleFps
    /\ IdleRun
    /\ IdleCropper
    /\ IdleLoop

\* the extractor called with an fps that is not positive
InitDegenerate ==
    /\ pc = "init"
    /\ mask \in SeqsUpTo(BOOLEAN, MaxLen)
    /\ fps \in DegenerateFpsValues
    /\ min_keep_sec \in ParamValues
    /\ pad_sec \in ParamValues
    /\ merge_gap_sec \in ParamValues
    /\ raw_segments = <<>>
    /\ filtered_segments = <<>>
    /\ merged_segments = <<>>
    /\ segments = <<>>
    /\ duration = NoValue
    /\ clamped = <<>>
    /\ raised = NoValue
    /\ IdleSmooth
    /\ IdleCrop
    /\ IdleZoom
    /\ IdleDetect
    /\ IdleFps
    /\ IdleRun
    /\ IdleCropper
    /\ IdleLoop

\* the clamper called on an arbitrary segment list (inverted, negative and
\* overlapping segments included)
InitClamp ==
    /\ pc = "segmented"
    /\ mask = <<>>
    /\ fps = 1
    /\ min_keep_sec = 0
    /\ pad_sec = 0
    /\ merge_gap_sec = 0
    /\ raw_segments = <<>>
    /\ filtered_segments = <<>>
    /\ merged_segments = <<>>
    /\ segments \in SeqsUpTo({Segment(a, b) : a \in TimeValues, b \in TimeValues}, MaxSegs)
    /\ duration = NoValue
    /\ clamped = <<>>
    /\ raised = NoValue
    /\ IdleSmooth
    /\ IdleCrop
    /\ IdleZoom
    /\ IdleDetect
    /\ IdleFps
    /\ IdleRun
    /\ IdleCropper
    /\ IdleLoop

\* SegmentService.create_segments_from_mask(mask, fps, min_keep_sec, pad_sec, merge_gap_sec)
CreateSegmentsFromMask ==
    /\ pc = "init"
    /\ ~divides_by_zero(mask, fps)
    /\ raw_segments' = convert_mask_to_raw_segments(mask, fps)
    /\ filtered_segments' = filter_short_segments(raw_segments', min_keep_sec)
    /\ merged_segments' = merge_close_segments(filtered_segments', merge_gap_sec)
    /\ segments' = add_padding(merged_segments', pad_sec)
    /\ pc' = "segmented"
    /\ UNCHANGED <<mask, fps, min_keep_sec, pad_sec, merge_gap_sec, duration, clamped,
                   raised>>
    /\ UNCHANGED <<smoothVars, cropVars>>
    /\ UNCHANGED zoomVars
    /\ UNCHANGED detectVars
    /\ UNCHANGED fpsVars
    /\ UNCHANGED runVars
    /\ UNCHANGED <<cropperVars, loopVars>>

\* the same call when _convert_mask_to_raw_segments reaches start = i / fps
\* with fps = 0: Python raises ZeroDivisionError and nothing is returned
CreateSegmentsFromMaskRaises ==
    /\ pc = "init"
    /\ divides_by_zero(mask, fps)
    /\ raised' = "ZeroDivisionError"
    /\ pc' = "raised"
    /\ UNCHANGED <<mask, fps, min_keep_sec, pad_sec, merge_gap_sec, raw_segments,
                   filtered_segments, merged_segments, segments, duration, clamped>>
    /\ UNCHANGED <<smoothVars, cropVars, zoomVars, detectVars, fpsVars>>
    /\ UNCHANGED runVars
    /\ UNCHANGED <<cropperVars, loopVars>>

\* SegmentService.clamp_segments_to_duration(segments, duration)
ClampSegmentsToDuration ==
    /\ pc = "segmented"
    /\ \E d \in DurationValues :
          /\ duration' = d
          /\ clamped' = clamp_segments_to_duration(segments, d)
    /\ pc' = "clamped"
    /\ UNCHANGED <<mask, fps, min_keep_sec, pad_sec, merge_gap_sec, raw_segments,
                   filtered_segments, merged_segments, segments, raised>>
    /\ UNCHANGED <<smoothVars, cropVars>>
    /\ UNCHANGED zoomVars
    /\ UNCHANGED detectVars
    /\ UNCHANGED fpsVars
    /\ UNCHANGED runVars
    /\ UNCHANGED <<cropperVars, loopVars>>

InitSmooth ==
    /\ pc = "init"
    /\ positions \in SeqsUpTo(PositionValues \cup {None}, MaxFrames)
    /\ window_size \in 1..MaxWindow
    /\ smoothed = <<>>
    /\ IdleSegment
    /\ IdleCrop
    /\ IdleZoom
    /\ IdleDetect
    /\ IdleFps
    /\ IdleRun
    /\ IdleCropper
    /\ IdleLoop

\* smooth_positions(positions, window_size)
SmoothPositions ==
    /\ pc = "init"
    /\ smoothed' = smooth_positions(positions, window_size)
    /\ pc' = "smoothed"
    /\ UNCHANGED <<positions, window_size, segVars, cropVars>>
    /\ UNCHANGED zoomVars
    /\ UNCHANGED detectVars
    /\ UNCHANGED fpsVars
    /\ UNCHANGED runVars
    /\ UNCHANGED <<cropperVars, loopVars>>

SpecSmooth == InitSmooth /\ [][SmoothPositions]_vars

\* every frame size, every crop size not larger than the frame, every centre
\* inside the frame and every anchor ratio in [0, 1]
InitCrop ==
    /\ pc = "init"
    /\ orig_size \in (1..MaxSide) \X (1..MaxSide)
    /\ crop_size \in (0..MaxSide) \X (0..MaxSide)
    /\ crop_size[1] <= orig_size[1]
    /\ crop_size[2] <= orig_size[2]
    /\ center \in (0..(MaxSide * RatioDen)) \X (0..(MaxSide * RatioDen))
    /\ center[1] <= orig_size[1] * RatioDen
    /\ center[2] <= orig_size[2] * RatioDen
    /\ anchor \in (0..RatioDen) \X (0..RatioDen)
    /\ crop_position = NoValue
    /\ IdleSegment
    /\ IdleSmooth
    /\ IdleZoom
    /\ IdleDetect
    /\ IdleFps
    /\ IdleRun
    /\ IdleCropper
    /\ IdleLoop

\* _calculate_crop_position(cx, cy, crop_w, crop_h, orig_w, orig_h, config)
CalculateCropPosition ==
    /\ pc = "init"
    /\ crop_position' = calculate_crop_position(center, crop_size, orig_size, anchor)
    /\ pc' = "cropped"
    /\ UNCHANGED <<orig_size, crop_size, center, anchor, segVars, smoothVars>>
    /\ UNCHANGED zoomVars
    /\ UNCHANGED detectVars
    /\ UNCHANGED fpsVars
    /\ UNCHANGED runVars
    /\ UNCHANGED <<cropperVars, loopVars>>

SpecCrop == InitCrop /\ [][CalculateCropPosition]_vars

NextSegment == CreateSegmentsFromMask \/ ClampSegmentsToDuration

SpecSegment == InitSegment /\ [][NextSegment]_vars

SpecClamp == InitClamp /\ [][ClampSegmentsToDuration]_vars

NextDegenerate == CreateSegmentsFromMask \/ CreateSegmentsFromMaskRaises

SpecDegenerate == InitDegenerate /\ [][NextDegenerate]_vars

\* the zoom resolver called on every list of sizes; every target with
\* auto_zoom on, every manual ratio with auto_zoom off
InitZoom ==
    /\ pc = "init"
    /\ sizes \in SeqsUpTo(SizeValues \cup {None}, MaxFrames)
    /\ \/ /\ auto_zoom = TRUE
          /\ target_landmark_ratio \in TargetValues
          /\ crop_zoom_ratio = RatioSq(<<3, 10>>)
       \/ /\ auto_zoom = FALSE
          /\ target_landmark_ratio = <<1, 4>>
          /\ crop_zoom_ratio \in {RatioSq(r) : r \in ManualValues}
    /\ zoom_ratio = NoValue
    /\ IdleSegment
    /\ IdleSmooth
    /\ IdleCrop
    /\ IdleDetect
    /\ IdleFps
    /\ IdleRun
    /\ IdleCropper
    /\ IdleLoop

\* calculate_zoom_ratio(config, sizes)
CalculateZoomRatio ==
    /\ pc = "init"
    /\ zoom_ratio' = calculate_zoom_ratio(auto_zoom, sizes, target_landmark_ratio,
                                          crop_zoom_ratio)
    /\ pc' = "zoomed"
    /\ UNCHANGED <<sizes, auto_zoom, target_landmark_ratio, crop_zoom_ratio>>
    /\ UNCHANGED <<segVars, smoothVars, cropVars>>
    /\ UNCHANGED detectVars
    /\ UNCHANGED fpsVars
    /\ UNCHANGED runVars
    /\ UNCHANGED <<cropperVars, loopVars>>

SpecZoom == InitZoom /\ [][CalculateZoomRatio]_vars

\* the detector's per-frame boxes for every short video and every threshold
InitDetect ==
    /\ pc = "init"
    /\ bounding_boxes \in SeqsUpTo(FrameValues, MaxSampled)
    /\ min_area_ratio \in MinAreaValues
    /\ hand_mask = <<>>
    /\ landmark_info = LandmarkInfo(<<>>, <<>>, <<>>)
    /\ IdleSegment
    /\ IdleSmooth
    /\ IdleCrop
    /\ IdleZoom
    /\ IdleFps
    /\ IdleRun
    /\ IdleCropper
    /\ IdleLoop

\* the for loop of LandmarkDetector.detect_mask over the frames of the video
DetectMask ==
    /\ pc \in {"init", "extracted"}
    /\ hand_mask' = detect_mask(bounding_boxes, min_area_ratio)
    /\ pc' = IF pc = "init" THEN "masked" ELSE "detected"
    /\ UNCHANGED <<bounding_boxes, min_area_ratio, landmark_info>>
    /\ UNCHANGED <<segVars, smoothVars, cropVars, zoomVars>>
    /\ UNCHANGED fpsVars
    /\ UNCHANGED runVars
    /\ UNCHANGED <<cropperVars, loopVars>>

\* LandmarkDetectorService.extract_landmark_info over the same frames
ExtractLandmarkInfo ==
    /\ pc \in {"init", "masked"}
    /\ landmark_info' = extract_landmark_info(bounding_boxes, min_area_ratio)
    /\ pc' = IF pc = "init" THEN "extracted" ELSE "detected"
    /\ UNCHANGED <<bounding_boxes, min_area_ratio, hand_mask>>
    /\ UNCHANGED <<segVars, smoothVars, cropVars, zoomVars>>
    /\ UNCHANGED fpsVars
    /\ UNCHANGED runVars
    /\ UNCHANGED <<cropperVars, loopVars>>

NextDetect == DetectMask \/ ExtractLandmarkInfo

SpecDetect == InitDetect /\ [][NextDetect]_vars

\* every source fps (unknown: 0 or negative, as the capture backend reports
\* it) and every requested sampling fps
InitFps ==
    /\ pc = "init"
    /\ original_fps \in -1..MaxOrigFps
    /\ sampling_fps \in 1..MaxSampleFps
    /\ sampling_step = NoValue
    /\ effective_fps = NoValue
    /\ IdleSegment
    /\ IdleSmooth
    /\ IdleCrop
    /\ IdleZoom
    /\ IdleDetect
    /\ IdleRun
    /\ IdleCropper
    /\ IdleLoop

\* VideoService._get_effective_fps(original_fps, sampling_fps)
GetEffectiveFps ==
    /\ pc = "init"
    /\ sampling_step' = get_effective_fps(original_fps, sampling_fps)[1]
    /\ effective_fps' = get_effective_fps(original_fps, sampling_fps)[2]
    /\ pc' = "sampled"
    /\ UNCHANGED <<original_fps, sampling_fps>>
    /\ UNCHANGED <<segVars, smoothVars, cropVars, zoomVars, detectVars>>
    /\ UNCHANGED runVars
    /\ UNCHANGED <<cropperVars, loopVars>>

SpecFps == InitFps /\ [][GetEffectiveFps]_vars

\* ---- EditMovie.run, one action per statement of the method
InitRun ==
    /\ pc = "run_start"
    /\ is_ignore_head_detect \in BOOLEAN
    /\ head_mask = <<>>
    /\ combined_mask = <<>>
    /\ source_clip = "unopened"
    /\ performed = <<>>
    /\ mask = <<>>
    /\ fps = 1
    /\ min_keep_sec \in RunParamValues
    /\ pad_sec \in RunParamValues
    /\ merge_gap_sec \in RunParamValues
    /\ raw_segments = <<>>
    /\ filtered_segments = <<>>
    /\ merged_segments = <<>>
    /\ segments = <<>>
    /\ duration = NoValue
    /\ clamped = <<>>
    /\ raised = NoValue
    /\ IdleSmooth
    /\ IdleCrop
    /\ IdleZoom
    /\ IdleDetect
    /\ IdleFps
    /\ IdleCropper
    /\ IdleLoop

\* self._setup(): opens the source clip and probes its duration
Setup ==
    /\ pc = "run_start"
    /\ source_clip' = "open"
    /\ duration' \in DurationValues
    /\ pc' = "run_setup"
    /\ UNCHANGED <<mask, fps, min_keep_sec, pad_sec, merge_gap_sec, raw_segments,
                   filtered_segments, merged_segments, segments, clamped, raised>>
    /\ UNCHANGED <<is_ignore_head_detect, head_mask, combined_mask, performed>>
    /\ UNCHANGED <<bounding_boxes, min_area_ratio, hand_mask, landmark_info>>
    /\ UNCHANGED <<smoothVars, cropVars, zoomVars, fpsVars>>
    /\ UNCHANGED <<cropperVars, loopVars>>

\* self._detect_hand(): video_meta.effective_fps and hand_mask, as the video
\* and the detector give them
DetectHand ==
    /\ pc = "run_setup"
    /\ fps' \in FpsValues
    /\ hand_mask' \in SeqsUpTo(BOOLEAN, MaxRunLen)
    /\ pc' = "run_hand"
    /\ UNCHANGED <<mask, min_keep_sec, pad_sec, merge_gap_sec, raw_segments,
                   filtered_segments, merged_segments, segments, duration, clamped,
                   raised>>
    /\ UNCHANGED <<bounding_boxes, min_area_ratio, landmark_info>>
    /\ UNCHANGED <<runVars, smoothVars, cropVars, zoomVars, fpsVars>>
    /\ UNCHANGED <<cropperVars, loopVars>>

\* self._detect_head()
DetectHead ==
    /\ pc = "run_hand"
    /\ ~is_ignore_head_detect
    /\ head_mask' \in SeqsUpTo(BOOLEAN, MaxRunLen)
    /\ pc' = "run_head"
    /\ UNCHANGED <<is_ignore_head_detect, combined_mask, source_clip, performed>>
    /\ UNCHANGED <<segVars, smoothVars, cropVars, zoomVars, detectVars, fpsVars>>
    /\ UNCHANGED <<cropperVars, loopVars>>

\* self._combined_mask()
CombinedMask ==
    /\ pc = "run_head"
    /\ combined_mask' = combine_masks(hand_mask, head_mask)
    /\ pc' = "run_combined"
    /\ UNCHANGED <<is_ignore_head_detect, head_mask, source_clip, performed>>
    /\ UNCHANGED <<segVars, smoothVars, cropVars, zoomVars, detectVars, fpsVars>>
    /\ UNCHANGED <<cropperVars, loopVars>>

\* mask = self.combined_mask or self.hand_mask; self._make_segment(mask):
\* the extractor, then the clamper with self.duration; self.segments is clamped
MakeSegment ==
    /\ \/ pc = "run_combined" /\ mask' = combined_mask
       \/ pc = "run_hand" /\ is_ignore_head_detect /\ mask' = hand_mask
    /\ raw_segments' = convert_mask_to_raw_segments(mask', fps)
    /\ filtered_segments' = filter_short_segments(raw_segments', min_keep_sec)
    /\ merged_segments' = merge_close_segments(filtered_segments', merge_gap_sec)
    /\ segments' = add_padding(merged_segments', pad_sec)
    /\ clamped' = clamp_segments_to_duration(segments', duration)
    /\ pc' = "run_segment"
    /\ UNCHANGED <<fps, min_keep_sec, pad_sec, merge_gap_sec, duration, raised>>
    /\ UNCHANGED <<runVars, smoothVars, cropVars, zoomVars, detectVars, fpsVars>>
    /\ UNCHANGED <<cropperVars, loopVars>>

\* if not self.segments: return
ReturnEmpty ==
    /\ pc = "run_segment"
    /\ segments_empty(clamped)
    /\ pc' = "run_returned"
    /\ UNCHANGED <<segVars, runVars, smoothVars, cropVars, zoomVars, detectVars, fpsVars>>
    /\ UNCHANGED <<cropperVars, loopVars>>

\* self._concat_movie()
ConcatMovie ==
    /\ pc = "run_segment"
    /\ ~segments_empty(clamped)
    /\ performed' = Append(performed, "concat")
    /\ pc' = "run_concat"
    /\ UNCHANGED <<is_ignore_head_detect, head_mask, combined_mask, source_clip>>
    /\ UNCHANGED <<segVars, smoothVars, cropVars, zoomVars, detectVars, fpsVars>>
    /\ UNCHANGED <<cropperVars, loopVars>>

\* self._change_speed()
ChangeSpeed ==
    /\ pc = "run_concat"
    /\ performed' = Append(performed, "speed")
    /\ pc' = "run_speed"
    /\ UNCHANGED <<is_ignore_head_detect, head_mask, combined_mask, source_clip>>
    /\ UNCHANGED <<segVars, smoothVars, cropVars, zoomVars, detectVars, fpsVars>>
    /\ UNCHANGED <<cropperVars, loopVars>>

\* self._output()
Output ==
    /\ pc = "run_speed"
    /\ performed' = Append(performed, "output")
    /\ pc' = "run_output"
    /\ UNCHANGED <<is_ignore_head_detect, head_mask, combined_mask, source_clip>>
    /\ UNCHANGED <<segVars, smoothVars, cropVars, zoomVars, detectVars, fpsVars>>
    /\ UNCHANGED <<cropperVars, loopVars>>

\* self._clean(): closes the output movie and the source clip; run returns
Clean ==
    /\ pc = "run_output"
    /\ source_clip' = "closed"
    /\ performed' = Append(performed, "clean")
    /\ pc' = "run_returned"
    /\ UNCHANGED <<is_ignore_head_detect, head_mask, combined_mask>>
    /\ UNCHANGED <<segVars, smoothVars, cropVars, zoomVars, detectVars, fpsVars>>
    /\ UNCHANGED <<cropperVars, loopVars>>

NextRun ==
    \/ Setup
    \/ DetectHand
    \/ DetectHead
    \/ CombinedMask
    \/ MakeSegment
    \/ ReturnEmpty
    \/ ConcatMovie
    \/ ChangeSpeed
    \/ Output
    \/ Clean

SpecRun == InitRun /\ [][NextRun]_vars

\* ---- the cropper: every detection result of up to MaxCropFrames frames (a
\* size wherever there is a position), automatic and manual zoom, smoothing
\* given or not, every duration, and every set of frames moviepy fails on
InitCropper ==
    /\ pc = "init"
    /\ positions \in SeqsUpTo(CropPositionValues \cup {None}, MaxCropFrames)
    /\ sizes \in SeqsUpTo(CropSizeValues \cup {None}, MaxCropFrames)
    /\ Len(sizes) = Len(positions)
    /\ \A k \in 1..Len(positions) : (sizes[k] = None) <=> (positions[k] = None)
    /\ landmark_fps \in FpsValues
    /\ \/ /\ auto_zoom = TRUE
          /\ target_landmark_ratio = <<1, 4>>
          /\ crop_zoom_ratio = RatioSq(<<3, 10>>)
       \/ /\ auto_zoom = FALSE
          /\ target_landmark_ratio = <<1, 4>>
          /\ crop_zoom_ratio \in {RatioSq(<<3, 10>>), RatioSq(<<1, 1>>)}
    /\ \/ /\ smooth_positions_fn = TRUE
          /\ window_size \in {1, MaxWindow}
       \/ /\ smooth_positions_fn = FALSE
          /\ window_size = 1
    /\ orig_size \in CropFrameSizes
    /\ anchor = <<RatioDen \div 2, RatioDen \div 2>>
    /\ duration \in DurationValues
    /\ failing_frames \in SUBSET (0..(MaxCropFrames - 1))
    /\ zoom_ratio = NoValue
    /\ smoothed = <<>>
    /\ crop_size = <<1, 1>>
    /\ center = <<0, 0>>
    /\ crop_position = NoValue
    /\ valid_frames = <<>>
    /\ clips = <<>>
    /\ cropped_clip = None
    /\ mask = <<>>
    /\ fps = 1
    /\ min_keep_sec = 0
    /\ pad_sec = 0
    /\ merge_gap_sec = 0
    /\ raw_segments = <<>>
    /\ filtered_segments = <<>>
    /\ merged_segments = <<>>
    /\ segments = <<>>
    /\ clamped = <<>>
    /\ raised = NoValue
    /\ IdleDetect
    /\ IdleFps
    /\ IdleRun
    /\ IdleLoop

\* crop_to_landmark_center after the detection: zoom, smoothing, valid frames,
\* the crop loop and the concatenation
CropToLandmarkCenter ==
    /\ pc = "init"
    /\ LET zoom == calculate_zoom_ratio(auto_zoom, sizes, target_landmark_ratio,
                                        crop_zoom_ratio)
           P == prepare_positions(positions, smooth_positions_fn, window_size)
           valid == valid_frames_of(P)
           cs == IF valid = <<>> THEN <<>>
                 ELSE crop_frames(P, valid, landmark_fps, duration, zoom, orig_size,
                                  anchor, failing_frames)
       IN  /\ zoom_ratio' = zoom
           /\ smoothed' = P
           /\ valid_frames' = valid
           /\ crop_size' = IF valid = <<>> THEN crop_size
                            ELSE <<IntTimesRatio(orig_size[1], zoom),
                                   IntTimesRatio(orig_size[2], zoom)>>
           /\ clips' = cs
           /\ cropped_clip' = crop_result(valid, cs)
    /\ pc' = "cropper_done"
    /\ UNCHANGED <<positions, window_size, sizes, auto_zoom, target_landmark_ratio,
                   crop_zoom_ratio, orig_size, center, anchor, crop_position>>
    /\ UNCHANGED <<mask, fps, min_keep_sec, pad_sec, merge_gap_sec, raw_segments,
                   filtered_segments, merged_segments, segments, duration, clamped,
                   raised>>
    /\ UNCHANGED <<landmark_fps, smooth_positions_fn, failing_frames>>
    /\ UNCHANGED <<detectVars, fpsVars, runVars, loopVars>>

SpecCropper == InitCropper /\ [][CropToLandmarkCenter]_vars

\* ---- LandmarkDetector.detect_mask and its generator _process_video_frames,
\* one action per step of the consumer; every source of up to MaxSourceFrames
\* frames, every source fps and sampling fps
InitHandOff ==
    /\ pc = "init"
    /\ total_frames \in 0..MaxSourceFrames
    /\ original_fps \in -1..MaxOrigFps
    /\ sampling_fps \in 1..MaxSampleFps
    /\ min_area_ratio \in {9, 17}
    /\ sampling_step = NoValue
    /\ effective_fps = NoValue
    /\ bounding_boxes = <<>>
    /\ hand_mask = <<>>
    /\ landmark_info = LandmarkInfo(<<>>, <<>>, <<>>)
    /\ idx = 0
    /\ processed_frames = 0
    /\ processed_indices = <<>>
    /\ generator = "none"
    /\ returned = <<>>
    /\ exception = "none"
    /\ IdleSegment
    /\ IdleSmooth
    /\ IdleCrop
    /\ IdleZoom
    /\ IdleRun
    /\ IdleCropper

\* mask = []; generator = self._process_video_frames(...): the call of a
\* generator function runs none of its body
CreateGenerator ==
    /\ pc = "init"
    /\ hand_mask' = <<>>
    /\ generator' = "created"
    /\ pc' = "for"
    /\ UNCHANGED <<bounding_boxes, min_area_ratio, landmark_info>>
    /\ UNCHANGED <<total_frames, idx, processed_frames, processed_indices, returned,
                   exception>>
    /\ UNCHANGED <<segVars, smoothVars, cropVars, zoomVars, fpsVars, runVars, cropperVars>>

\* one iteration of `for _, bounding_boxes in generator`: next() runs the
\* generator up to its next yield, then the loop body appends has_detection
ForYield ==
    /\ pc = "for"
    /\ generator \in {"created", "suspended"}
    /\ LET step == resume_step(generator, sampling_step, original_fps, sampling_fps)
           n == next_processed(resume_idx(generator, idx), step, total_frames)
       IN  /\ n < total_frames
           /\ sampling_step' = step
           /\ effective_fps' = IF generator = "created"
                               THEN get_effective_fps(original_fps, sampling_fps)[2]
                               ELSE effective_fps
           /\ idx' = n
           /\ processed_frames' = IF generator = "created" THEN 0 ELSE processed_frames + 1
           /\ processed_indices' = Append(processed_indices, n)
           /\ \E b \in LoopFrameValues :
                 /\ bounding_boxes' = Append(bounding_boxes, b)
                 /\ hand_mask' = Append(hand_mask, has_detection(b, min_area_ratio))
    /\ generator' = "suspended"
    /\ pc' = "for"
    /\ UNCHANGED <<original_fps, sampling_fps, min_area_ratio, landmark_info>>
    /\ UNCHANGED <<total_frames, returned, exception>>
    /\ UNCHANGED <<segVars, smoothVars, cropVars, zoomVars, runVars, cropperVars>>

\* the last next() of the for statement: cap.read() fails, the generator
\* executes `return eff_fps, processed_frames`, and the for statement ends on
\* the StopIteration, whose value it drops
ForStop ==
    /\ pc = "for"
    /\ generator \in {"created", "suspended"}
    /\ LET step == resume_step(generator, sampling_step, original_fps, sampling_fps)
           n == next_processed(resume_idx(generator, idx), step, total_frames)
       IN  /\ n >= total_frames
           /\ sampling_step' = step
           /\ effective_fps' = IF generator = "created"
                               THEN get_effective_fps(original_fps, sampling_fps)[2]
                               ELSE effective_fps
           /\ idx' = total_frames
           /\ processed_frames' = IF generator = "created" THEN 0 ELSE processed_frames + 1
    /\ generator' = "finished"
    /\ pc' = "send"
    /\ UNCHANGED <<original_fps, sampling_fps, detectVars>>
    /\ UNCHANGED <<total_frames, processed_indices, returned, exception>>
    /\ UNCHANGED <<segVars, smoothVars, cropVars, zoomVars, runVars, cropperVars>>

\* try: eff_fps, _ = generator.send(None)
\* except StopIteration as e: eff_fps, _ = e.value
\* return mask, eff_fps
SendNone ==
    /\ pc = "send"
    /\ IF stop_value(generator) = None
       THEN /\ exception' = "TypeError"
            /\ returned' = returned
       ELSE /\ exception' = "none"
            /\ returned' = <<hand_mask, effective_fps>>
    /\ pc' = "detect_mask_done"
    /\ UNCHANGED <<total_frames, idx, processed_frames, processed_indices, generator>>
    /\ UNCHANGED <<segVars, smoothVars, cropVars, zoomVars, detectVars, fpsVars, runVars,
                   cropperVars>>

NextHandOff == CreateGenerator \/ ForYield \/ ForStop \/ SendNone

SpecHandOff == InitHandOff /\ [][NextHandOff]_vars

\* ---- LandmarkDetectorService._make_video_editor and its frame loop
\* _calculate_process_frame, one action per cap.read(); every source of up to
\* MaxSourceFrames frames, every source fps and sampling fps
InitSampling ==
    /\ pc = "init"
    /\ total_frames \in 0..MaxSourceFrames
    /\ original_fps \in -1..MaxOrigFps
    /\ sampling_fps \in 1..MaxSampleFps
    /\ sampling_step = NoValue
    /\ effective_fps = NoValue
    /\ idx = 0
    /\ processed_frames = 0
    /\ processed_indices = <<>>
    /\ generator = "none"
    /\ returned = <<>>
    /\ exception = "none"
    /\ IdleSegment
    /\ IdleSmooth
    /\ IdleCrop
    /\ IdleZoom
    /\ IdleDetect
    /\ IdleRun
    /\ IdleCropper

\* _make_video_editor up to the loop: the step and the effective fps;
\* bounding_boxes = []; idx = 0
MakeVideoEditor ==
    /\ pc = "init"
    /\ sampling_step' = get_effective_fps(original_fps, sampling_fps)[1]
    /\ effective_fps' = get_effective_fps(original_fps, sampling_fps)[2]
    /\ bounding_boxes' = <<>>
    /\ idx' = 0
    /\ processed_indices' = <<>>
    /\ pc' = "reading"
    /\ UNCHANGED <<original_fps, sampling_fps, min_area_ratio, hand_mask, landmark_info>>
    /\ UNCHANGED <<total_frames, processed_frames, generator, returned, exception>>
    /\ UNCHANGED <<segVars, smoothVars, cropVars, zoomVars, runVars, cropperVars>>

\* cap.read() delivers a frame that the step skips
ReadSkipped ==
    /\ pc = "reading"
    /\ idx < total_frames
    /\ ~is_sampled(idx, sampling_step)
    /\ idx' = idx + 1
    /\ UNCHANGED pc
    /\ UNCHANGED <<total_frames, processed_frames, processed_indices, generator, returned,
                   exception>>
    /\ UNCHANGED <<segVars, smoothVars, cropVars, zoomVars, detectVars, fpsVars, runVars,
                   cropperVars>>

\* cap.read() delivers a frame that is processed: the detector's result is
\* appended to bounding_boxes
ReadProcessed ==
    /\ pc = "reading"
    /\ idx < total_frames
    /\ is_sampled(idx, sampling_step)
    /\ \E b \in LoopFrameValues : bounding_boxes' = Append(bounding_boxes, b)
    /\ processed_indices' = Append(processed_indices, idx)
    /\ idx' = idx + 1
    /\ UNCHANGED pc
    /\ UNCHANGED <<min_area_ratio, hand_mask, landmark_info>>
    /\ UNCHANGED <<total_frames, processed_frames, generator, returned, exception>>
    /\ UNCHANGED <<segVars, smoothVars, cropVars, zoomVars, fpsVars, runVars, cropperVars>>

\* cap.read() fails: break, release, return bounding_boxes
ReadEnd ==
    /\ pc = "reading"
    /\ idx >= total_frames
    /\ pc' = "loop_done"
    /\ UNCHANGED <<segVars, smoothVars, cropVars, zoomVars, detectVars, fpsVars, runVars,
                   cropperVars, loopVars>>

NextSampling == MakeVideoEditor \/ ReadSkipped \/ ReadProcessed \/ ReadEnd

SpecSampling == InitSampling /\ [][NextSampling]_vars

\* ------------------------------------------------- properties: segments
\* the maximal runs of TRUE of a mask, as Python index pairs <<i, j>>, j exclusive
MaximalRuns(m) ==
    {r \in (0..Len(m)) \X (0..Len(m)) :
        /\ r[1] < r[2]
        /\ \A k \in (r[1] + 1)..r[2] : m[k]
        /\ (r[1] = 0 \/ ~m[r[1]])
        /\ (r[2] = Len(m) \/ ~m[r[2] + 1])}

\* s is the segment {start: i/fps, end: j/fps} of run r (stated without division)
IsSegmentOfRun(s, r, f) ==
    /\ s.start * f = r[1] * TicksPerSec
    /\ s.end * f = r[2] * TicksPerSec

\* the runs whose duration (j - i) / fps is at least mk ticks
LongRuns(m, f, mk) ==
    {r \in MaximalRuns(m) : (r[2] - r[1]) * TicksPerSec >= mk * f}

\* the mask with every run shorter than mk set to FALSE
CleanedMask(m, f, mk) ==
    [k \in 1..Len(m) |-> \E r \in LongRuns(m, f, mk) : r[1] < k /\ k <= r[2]]

\* k / 10 seconds, in ticks
Tenths(k) == (k * TicksPerSec) \div 10

\* C2: the raw segments are, in left-to-right order, exactly one segment
\* {start: i/fps, end: j/fps} per maximal run [i, j) of TRUE, and nothing else;
\* the 10-frame example at 10 fps gives (0.1,0.3), (0.4,0.5), (0.7,1.0).
C2_RunLengthDecode ==
    pc # "init" =>
        /\ Len(raw_segments) = Cardinality(MaximalRuns(mask))
        /\ \A r \in MaximalRuns(mask) :
              \E k \in 1..Len(raw_segments) : IsSegmentOfRun(raw_segments[k], r, fps)
        /\ \A k \in 1..(Len(raw_segments) - 1) :
              raw_segments[k].end < raw_segments[k + 1].start
        /\ (mask = RunLengthExampleMask /\ fps = 10) =>
              /\ raw_segments = <<Segment(Tenths(1), Tenths(3)),
                                    Segment(Tenths(4), Tenths(5)),
                                    Segment(Tenths(7), Tenths(10))>>
              /\ segments = raw_segments

C2_Witness ==
    /\ pc = "segmented"
    /\ mask = RunLengthExampleMask
    /\ fps = 10
    /\ Len(raw_segments) = 3

\* C3: a raw run is kept by the filter iff its own duration is >= min_keep_sec,
\* however close it lies to other runs, so the extractor's output equals its
\* output for the mask with every too-short run set to FALSE (two short runs
\* within merge_gap_sec of each other are both dropped, not merged).
C3_FilterBeforeMerge ==
    pc # "init" =>
        /\ Len(filtered_segments) = Cardinality(LongRuns(mask, fps, min_keep_sec))
        /\ \A r \in MaximalRuns(mask) :
              (\E k \in 1..Len(filtered_segments) :
                   IsSegmentOfRun(filtered_segments[k], r, fps))
              <=> r \in LongRuns(mask, fps, min_keep_sec)
        /\ segments = create_segments_from_mask(
                          CleanedMask(mask, fps, min_keep_sec),
                          fps, min_keep_sec, pad_sec, merge_gap_sec)
        /\ (LongRuns(mask, fps, min_keep_sec) = {}) => segments = <<>>

C3_Witness ==
    /\ pc = "segmented"
    /\ Len(raw_segments) = 2
    /\ raw_segments[2].start - raw_segments[1].end <= merge_gap_sec
    /\ \A k \in 1..2 : raw_segments[k].end - raw_segments[k].start < min_keep_sec
    /\ raw_segments[2].end - raw_segments[1].start >= min_keep_sec
    /\ segments = <<>>

\* indices k of the filtered list after which the merge starts a new segment
MergeBreaks(segs, gap) ==
    {k \in 1..(Len(segs) - 1) : segs[k + 1].start - segs[k].end > gap}

\* C4: a filtered segment is folded into the running segment iff its start
\* minus the running end is <= merge_gap_sec (equality merges), the running end
\* becoming its end; so consecutive merged segments are disjoint and separated
\* by a gap strictly greater than merge_gap_sec.
C4_MergeRule ==
    pc # "init" =>
        LET F == filtered_segments
            M == merged_segments
            B == MergeBreaks(F, merge_gap_sec)
        IN  /\ (F = <<>>) => (M = <<>>)
            /\ (F # <<>>) =>
                  /\ Len(M) = Cardinality(B) + 1
                  /\ M[1].start = F[1].start
                  /\ M[Len(M)].end = F[Len(F)].end
                  /\ \A k \in B :
                        LET n == Cardinality({b \in B : b <= k})
                        IN  /\ M[n].end = F[k].end
                            /\ M[n + 1].start = F[k + 1].start
            /\ \A n \in 1..(Len(M) - 1) :
                  /\ M[n].end < M[n + 1].start
                  /\ M[n + 1].start - M[n].end > merge_gap_sec

C4_Witness ==
    /\ pc = "segmented"
    /\ Len(filtered_segments) = 3
    /\ Len(merged_segments) = 1
    /\ merge_gap_sec > 0
    /\ filtered_segments[2].start - filtered_segments[1].end = merge_gap_sec

\* C5: every returned segment is its merged segment with
\* start' = max(0, start - pad_sec) and end' = end + pad_sec, so
\* 0 <= start' <= start < end <= end' and no returned segment is inverted.
C5_PaddingOnlyWidens ==
    pc # "init" =>
        /\ Len(segments) = Len(merged_segments)
        /\ \A k \in 1..Len(segments) :
              LET s == merged_segments[k]
                  p == segments[k]
              IN  /\ p.start = (IF s.start >= pad_sec THEN s.start - pad_sec ELSE 0)
                  /\ p.end = s.end + pad_sec
                  /\ 0 <= p.start /\ p.start <= s.start
                  /\ s.start < s.end
                  /\ s.end <= p.end
                  /\ p.start <= p.end

C5_Witness ==
    /\ pc = "segmented"
    /\ \E k \in 1..Len(segments) :
          /\ 0 < merged_segments[k].start
          /\ merged_segments[k].start < pad_sec
          /\ segments[k].start = 0

\* C6 as stated: the returned list is strictly increasing by start.
C6_StrictlyIncreasingStart ==
    pc # "init" =>
        \A k \in 1..(Len(segments) - 1) : segments[k].start < segments[k + 1].start

\* C6 as amended: the returned list is non-decreasing by start and strictly
\* increasing by end; two consecutive starts are equal only when both are 0,
\* i.e. when both merged starts are <= pad_sec.
C6_NonDecreasingStart ==
    pc # "init" =>
        \A k \in 1..(Len(segments) - 1) :
            /\ segments[k].start <= segments[k + 1].start
            /\ segments[k].end < segments[k + 1].end
            /\ (segments[k].start = segments[k + 1].start) =>
                  /\ segments[k].start = 0
                  /\ merged_segments[k + 1].start <= pad_sec

C6_Witness ==
    /\ pc = "segmented"
    /\ Len(segments) >= 2
    /\ segments[1].start = 0
    /\ segments[2].start = 0
    /\ merged_segments[1].start < merged_segments[2].start

\* ---------------------------------------------------- properties: clamp
\* clamp(x, 0, d), written as a case split
ClampTo(x, d) == IF x < 0 THEN 0 ELSE IF x > d THEN d ELSE x

\* the input indices whose clamped end is greater than their clamped start
KeptIndices(segs, d) ==
    {k \in 1..Len(segs) : ClampTo(segs[k].end, d) > ClampTo(segs[k].start, d)}

\* C7: every output segment of the clamper satisfies 0 <= start < end <= duration;
\* an input whose clamped end is not greater than its clamped start is dropped,
\* and the survivors appear, clamped, in their input order.
C7_ClampContainment ==
    pc = "clamped" =>
        LET K == KeptIndices(segments, duration)
        IN  /\ \A n \in 1..Len(clamped) :
                  /\ 0 <= clamped[n].start
                  /\ clamped[n].start < clamped[n].end
                  /\ clamped[n].end <= duration
            /\ Len(clamped) = Cardinality(K)
            /\ \A k \in K :
                  clamped[Cardinality({j \in K : j <= k})]
                      = Segment(ClampTo(segments[k].start, duration),
                                ClampTo(segments[k].end, duration))

C7_Witness ==
    /\ pc = "clamped"
    /\ Len(segments) = 2
    /\ Len(clamped) = 1
    /\ KeptIndices(segments, duration) = {2}
    /\ clamped[1] # segments[2]

\* C8: clamp(clamp(S, d), d) = clamp(S, d): same segments, same order.
C8_ClampIdempotent ==
    pc = "clamped" =>
        clamp_segments_to_duration(clamped, duration) = clamped

C8_Witness ==
    /\ pc = "clamped"
    /\ clamped # <<>>
    /\ clamped # segments
    /\ clamp_segments_to_duration(clamped, duration) = clamped

\* ----------------------------------------------------- properties: crop
\* C1: for every centre inside the frame, anchor ratios in [0, 1] and crop size
\* not larger than the frame, the returned top-left (x1, y1) satisfies
\* 0 <= x1, 0 <= y1, x1 + cropW <= frameW and y1 + cropH <= frameH.
C1_CropContainment ==
    pc = "cropped" =>
        /\ 0 <= crop_position[1]
        /\ 0 <= crop_position[2]
        /\ crop_position[1] + crop_size[1] <= orig_size[1]
        /\ crop_position[2] + crop_size[2] <= orig_size[2]

\* the ideal rectangle overshoots the right edge and the top edge: both
\* boundary corrections have acted
C1_Witness ==
    /\ pc = "cropped"
    /\ center[1] - crop_size[1] * anchor[1] + crop_size[1] * RatioDen
           > orig_size[1] * RatioDen
    /\ center[2] - crop_size[2] * anchor[2] < 0
    /\ crop_position = <<orig_size[1] - crop_size[1], 0, TRUE>>
    /\ crop_position[1] > 0

\* ------------------------------------------------- properties: smoother
\* the Python indices of the window of index i, clipped to the list
WindowIndices(P, i, w) ==
    {j \in 0..(Len(P) - 1) : i - w \div 2 <= j /\ j <= i + w \div 2}

\* the indices of the window that hold a position
ValidIndices(P, i, w) == {j \in WindowIndices(P, i, w) : P[j + 1] # None}

\* the sum of coordinate c over the indices J
RECURSIVE SumOver(_, _, _)
SumOver(P, J, c) ==
    IF J = {} THEN 0
    ELSE LET j == CHOOSE x \in J : TRUE
         IN  P[j + 1][c] + SumOver(P, J \ {j}, c)

\* C9: the output has the input's length, smoothed[i] is None iff positions[i]
\* is None, and a value is the mean of the non-None entries of its window only
\* (None entries add nothing to the sum and nothing to the count).
C9_SmootherPreservesAbsence ==
    pc = "smoothed" =>
        /\ Len(smoothed) = Len(positions)
        /\ \A k \in 1..Len(positions) :
              /\ (smoothed[k] = None) <=> (positions[k] = None)
              /\ (positions[k] # None) =>
                    LET V == ValidIndices(positions, k - 1, window_size)
                    IN  \A c \in 1..2 :
                           smoothed[k][c] * Cardinality(V) = SumOver(positions, V, c)

C9_Witness ==
    /\ pc = "smoothed"
    /\ window_size = 3
    /\ Len(positions) = 3
    /\ positions[1] # None
    /\ positions[2] = None
    /\ positions[3] # None
    /\ positions[1] # positions[3]
    /\ smoothed = positions

\* the case of C10: window 3, three frames, neighbours (0,0) and (2,2), a
\* detection at index 1
LocalAverageCase ==
    /\ pc = "smoothed"
    /\ window_size = 3
    /\ Len(positions) = 3
    /\ positions[1] = <<0, 0>>
    /\ positions[3] = <<2 * CoordScale, 2 * CoordScale>>
    /\ positions[2] # None

\* C10 as stated: smoothed[1] is the mean of the two neighbours, (1,1).
C10_MeanOfNeighbours ==
    LocalAverageCase => smoothed[2] = <<CoordScale, CoordScale>>

\* C10 as amended: smoothed[1] is the mean of all three values, the detection
\* at index 1 included; it is the mean of the two neighbours only when the
\* detection at index 1 is itself that mean.
C10_MeanOfAllThree ==
    LocalAverageCase =>
        /\ \A c \in 1..2 :
              3 * smoothed[2][c] = positions[1][c] + positions[2][c] + positions[3][c]
        /\ (smoothed[2] = <<CoordScale, CoordScale>>)
              <=> (positions[2] = <<CoordScale, CoordScale>>)

C10_Witness ==
    /\ LocalAverageCase
    /\ positions[2] = <<2 * CoordScale, 2 * CoordScale>>
    /\ smoothed[2] # <<CoordScale, CoordScale>>

\* ----------------------------------------------------- properties: zoom
ZoomLow == RatioSq(<<2, 10>>)
ZoomHigh == RatioSq(<<9, 10>>)
ZoomFallback == RatioSq(<<5, 10>>)

HasSize(S) == \E k \in 1..Len(S) : S[k] # None

\* C11 -- Auto-zoom bounds: with auto_zoom on and a target ratio in (0, 1],
\* whatever the list of sizes, the resolver's result r satisfies
\* 0.2 <= r <= 0.9 (stated on the squares: 0.04 <= r * r <= 0.81).
C11_AutoZoomBounds ==
    (pc = "zoomed" /\ auto_zoom) =>
        /\ FracLE(ZoomLow, zoom_ratio)
        /\ FracLE(zoom_ratio, ZoomHigh)

\* the resolver has run with auto_zoom on over a list of two or more entries
\* whose sizes all have area 0, so that sqrt(median / target) is below 0.2
C11_Witness ==
    /\ pc = "zoomed"
    /\ auto_zoom
    /\ Len(sizes) >= 2
    /\ HasSize(sizes)
    /\ \A k \in 1..Len(sizes) : sizes[k] # None => sizes[k][1] * sizes[k][2] = 0
    /\ zoom_ratio = ZoomLow

\* C12 -- Auto-zoom fallback: with auto_zoom on and no non-None size in the
\* list (the empty list, or only None entries) the result is exactly 0.5.
C12_AutoZoomFallback ==
    (pc = "zoomed" /\ auto_zoom /\ ~HasSize(sizes)) => zoom_ratio = ZoomFallback

\* the resolver has run with auto_zoom on over [None, None]
C12_Witness ==
    /\ pc = "zoomed"
    /\ auto_zoom
    /\ sizes = <<None, None>>
    /\ zoom_ratio = <<1, 4>>

\* C13 -- Manual zoom pass-through: with auto_zoom off the result is
\* crop_zoom_ratio itself, not clamped to [0.2, 0.9], whatever the sizes are.
C13_ManualPassThrough ==
    (pc = "zoomed" /\ ~auto_zoom) => zoom_ratio = crop_zoom_ratio

\* the resolver has run with auto_zoom off, a manual ratio outside [0.2, 0.9]
\* and a list of sizes from which the automatic branch would have computed
\* something else
C13_Witness ==
    /\ pc = "zoomed"
    /\ ~auto_zoom
    /\ HasSize(sizes)
    /\ ~FracLE(ZoomLow, crop_zoom_ratio)
    /\ zoom_ratio = crop_zoom_ratio
    /\ calculate_auto_zoom_ratio(sizes, target_landmark_ratio) # zoom_ratio

\* ------------------------------------------------ properties: detection
\* the boxes of frame k that pass the area threshold, as list indices
ValidBoxes(k) ==
    IF bounding_boxes[k] = None THEN {}
    ELSE {j \in 1..Len(bounding_boxes[k][1]) :
             bounding_boxes[k][1][j].area >= min_area_ratio}

IsRounded(n) ==
    LET twice == 2 * Abs(original_fps - n * sampling_fps)
    IN  /\ twice <= sampling_fps
        /\ twice = sampling_fps => n % 2 = 0

\* C16 (as stated) -- Effective fps: for original_fps > 0 and sampling_fps > 0,
\* effective_fps = original_fps / round(original_fps / sampling_fps), that is
\* effective_fps * round(original_fps / sampling_fps) = original_fps; for
\* original_fps = 0, effective_fps = sampling_fps.
C16_EffectiveFpsByRound ==
    (pc = "sampled") =>
        /\ original_fps > 0 =>
              \E n \in 0..original_fps :
                  /\ IsRounded(n)
                  /\ n # 0
                  /\ effective_fps[1] * n = original_fps * effective_fps[2]
        /\ original_fps = 0 => effective_fps = <<sampling_fps, 1>>

\* C16 (amended) -- Effective fps: for original_fps > 0 and sampling_fps > 0,
\* effective_fps = original_fps / max(1, round(original_fps / sampling_fps)),
\* round going to the nearest integer and to the even one on a tie; for
\* original_fps = 0, effective_fps = sampling_fps.
C16_EffectiveFpsByStep ==
    (pc = "sampled") =>
        /\ original_fps > 0 =>
              \E n \in 0..original_fps :
                  /\ IsRounded(n)
                  /\ effective_fps[1] * Max(1, n) = original_fps * effective_fps[2]
        /\ original_fps = 0 => effective_fps = <<sampling_fps, 1>>

\* the function has run on a source slower than half the sampling rate, where
\* original_fps / sampling_fps rounds to 0 and the step is raised to 1
C16_Witness ==
    /\ pc = "sampled"
    /\ original_fps > 0
    /\ 2 * original_fps < sampling_fps
    /\ sampling_step = 1
    /\ effective_fps = <<original_fps, 1>>

\* ------------------------------------------- properties: degenerate fps
\* C17 -- Degenerate fps: called with fps <= 0 the extractor ends by
\* signalling an invalid-configuration error: it neither divides by zero nor
\* returns a result computed from the invalid fps.
C17_DegenerateFpsRejected ==
    (fps <= 0 /\ pc # "init") => (pc = "raised" /\ raised = "InvalidConfiguration")

\* ------------------------------------------------ properties: end to end
EndToEndCase ==
    /\ mask = EndToEndMask
    /\ fps = 10
    /\ min_keep_sec = TicksPerSec
    /\ merge_gap_sec = TicksPerSec \div 4
    /\ pad_sec = Tenths(3)

\* C18 -- End-to-end scenario: for the 100-frame mask at 10 fps with the object
\* in frames 20..39 and 60..62, min_keep_sec 1.0, merge_gap_sec 0.25 and
\* pad_sec 0.3, the extractor followed by the clamp to [0, 10] yields exactly
\* the single segment (1.7, 4.3); the 0.3 s run (6.0, 6.3) is dropped by the
\* length filter.
C18_EndToEnd ==
    (EndToEndCase /\ pc # "init") =>
        /\ raw_segments = <<Segment(Tenths(20), Tenths(40)), Segment(Tenths(60), Tenths(63))>>
        /\ filtered_segments = <<Segment(Tenths(20), Tenths(40))>>
        /\ segments = <<Segment(Tenths(17), Tenths(43))>>
        /\ (pc = "clamped" /\ duration = 10 * TicksPerSec) =>
              clamped = <<Segment(Tenths(17), Tenths(43))>>

\* the scenario has been extracted and clamped to 10 s
C18_Witness ==
    /\ EndToEndCase
    /\ pc = "clamped"
    /\ duration = 10 * TicksPerSec
    /\ Len(raw_segments) = 2
    /\ Len(clamped) = 1

\* ------------------------------------------------------- properties: run
NoDetection(m) == \A k \in 1..Len(m) : ~m[k]

AfterMakeSegment ==
    pc \in {"run_segment", "run_concat", "run_speed", "run_output", "run_returned"}

ClippedWindow(n, i, w) == Max(0, i - w \div 2)..Min(n - 1, i + w \div 2)

\* the list P with every entry at an index outside W replaced by None
OutsideErased(P, W) == [k \in 1..Len(P) |-> IF (k - 1) \in W THEN P[k] ELSE None]

\* C20 -- Windowed mean: for every index i with positions[i] non-None,
\* smoothed[i] is the arithmetic mean, for x and y independently, of exactly
\* the non-None entries at the indices max(0, i - w // 2) .. min(n - 1, i + w // 2),
\* positions[i] among them; and smoothed[i] stays the same when entries at
\* indices outside that range are changed.  The last part is stated as:
\* smoothed[i] is what the smoother gives at i for the list with everything
\* outside the range erased; two lists that agree inside the range have the
\* same erased list, hence the same smoothed[i].
C20_WindowedMean ==
    pc = "smoothed" =>
        \A i \in 0..(Len(positions) - 1) :
            positions[i + 1] # None =>
                LET W == ClippedWindow(Len(positions), i, window_size)
                    V == {j \in W : positions[j + 1] # None}
                IN  /\ i \in V
                    /\ \A c \in 1..2 :
                          smoothed[i + 1][c] * Cardinality(V) = SumOver(positions, V, c)
                    /\ smoothed[i + 1] =
                           smooth_entry(OutsideErased(positions, W), i, window_size)

\* the smoother has run with window 3 over three detections: the window of
\* index 0 is 0..1, index 2 lies outside it, and smoothed[0] is the mean of
\* the first two entries, which differs from the mean of all three
C20_Witness ==
    /\ pc = "smoothed"
    /\ window_size = 3
    /\ Len(positions) = 3
    /\ positions[1] = <<0, 0>>
    /\ positions[2] = <<2 * CoordScale, 0>>
    /\ positions[3] = <<CoordScale, 2 * CoordScale>>
    /\ smoothed[1] = <<CoordScale, 0>>
    /\ smoothed[3] = <<(3 * CoordScale) \div 2, CoordScale>>

\* ---------------------------------------------- properties: median zoom
\* the areas w * h of the non-None sizes, with their positions in the list
AreaAt(S, k) == S[k][1] * S[k][2]
SizedIndices(S) == {k \in 1..Len(S) : S[k] # None}

\* m is the element at index floor(k / 2) of the ascending-sorted areas:
\* at most floor(k / 2) areas are smaller, more than floor(k / 2) are not larger
IsMedian(S, m) ==
    LET K == SizedIndices(S)
        half == Cardinality(K) \div 2
    IN  /\ \E k \in K : AreaAt(S, k) = m
        /\ Cardinality({k \in K : AreaAt(S, k) < m}) <= half
        /\ Cardinality({k \in K : AreaAt(S, k) <= m}) > half

\* the list S with the entries at k and k + 1 exchanged
SwapAdjacent(S, k) == [S EXCEPT ![k] = S[k + 1], ![k + 1] = S[k]]

\* C21 -- Median-based zoom: with auto_zoom on and k >= 1 non-None sizes, the
\* median is the element at index floor(k / 2) of the ascending-sorted areas
\* w * h (the upper middle one for even k), the result r is
\* min(0.9, max(0.2, sqrt(median / target))), that is r * r = median / target
\* whenever that lies in [0.04, 0.81], and the result is the same for every
\* order of the sizes (stated for the exchange of two neighbours, from which
\* every reordering is composed).
C21_MedianZoom ==
    (pc = "zoomed" /\ auto_zoom /\ HasSize(sizes)) =>
        /\ \E m \in {AreaAt(sizes, k) : k \in SizedIndices(sizes)} :
              LET q == Frac(m * target_landmark_ratio[2],
                            SizeDen * SizeDen * target_landmark_ratio[1])
              IN  /\ IsMedian(sizes, m)
                  /\ zoom_ratio = FracMin(ZoomHigh, FracMax(ZoomLow, q))
                  /\ (FracLE(ZoomLow, q) /\ FracLE(q, ZoomHigh)) => zoom_ratio = q
        /\ \A k \in 1..(Len(sizes) - 1) :
              calculate_zoom_ratio(auto_zoom, SwapAdjacent(sizes, k),
                                   target_landmark_ratio, crop_zoom_ratio) = zoom_ratio

\* the resolver has run over two sizes of areas 1/2 and 1/4 of the frame,
\* larger first, with target 1: the upper middle area 1/2 is the median and
\* the squared ratio is 1/2, inside [0.04, 0.81]
C21_Witness ==
    /\ pc = "zoomed"
    /\ auto_zoom
    /\ target_landmark_ratio = <<1, 1>>
    /\ Len(sizes) = 3
    /\ sizes[1] # None /\ sizes[2] = None /\ sizes[3] # None
    /\ 4 * AreaAt(sizes, 1) = 2 * SizeDen * SizeDen
    /\ 4 * AreaAt(sizes, 3) = SizeDen * SizeDen
    /\ zoom_ratio = <<1, 2>>

\* -------------------------------------------------- properties: cropper
\* the time range [i / fps, min((i + 1) / fps, duration)] has positive length
RangeNonEmpty(i) ==
    TimeOfFrame(i, landmark_fps) < Min(TimeOfFrame(i + 1, landmark_fps), duration)

C23_GeneratorHandOff ==
    (pc = "detect_mask_done") =>
        /\ generator = "finished"
        /\ Len(hand_mask) = Len(processed_indices)
        /\ exception = "none"
        /\ returned = <<hand_mask, effective_fps>>

\* ------------------------------------------- properties: staged and fused
\* every list of up to MaxSegs segments over TimeValues
SegmentLists == SeqsUpTo({Segment(a, b) : a \in TimeValues, b \in TimeValues}, MaxSegs)

\* C24 -- Staged and fused agree: for every mask, fps > 0, minKeepSec, padSec
\* and mergeGapSec the four-pass SegmentService.create_segments_from_mask
\* returns the same list as Segment.bools_to_segments and as
\* segment/main.bools_to_segments; likewise the three clamp implementations
\* return the same list (on the extractor's output for every duration, and on
\* every segment list of SegmentLists).
C24_StagedAndFusedAgree ==
    /\ (pc \in {"segmented", "clamped"} /\ fps > 0) =>
          /\ segments = bools_to_segments(mask, fps, min_keep_sec, pad_sec, merge_gap_sec)
          /\ segments = main_bools_to_segments(mask, fps, min_keep_sec, pad_sec,
                                               merge_gap_sec)
    /\ (pc = "clamped") =>
          /\ clamped = clamp_segments(segments, duration)
          /\ clamped = main_clamp_segments(segments, duration)
    /\ (pc = "clamped" /\ mask = <<>>) =>
          \A segs \in SegmentLists :
              /\ clamp_segments_to_duration(segs, duration) = clamp_segments(segs, duration)
              /\ clamp_segments_to_duration(segs, duration) =
                     main_clamp_segments(segs, duration)

\* the extractor and the clamper have run on a mask where the merge joined
\* two runs, the padding widened the result and the clamp changed it
C24_Witness ==
    /\ pc = "clamped"
    /\ Len(merged_segments) < Len(filtered_segments)
    /\ pad_sec > 0
    /\ clamped # <<>>
    /\ clamped # segments
    /\ segments = bools_to_segments(mask, fps, min_keep_sec, pad_sec, merge_gap_sec)

\* ------------------------------------------- properties: fps is never zero
\* C25 -- The fps fed to the extractor is never zero: for every fpsSample >= 1
\* and every origFps (positive, zero or negative) the sampling step is an
\* integer >= 1 and effectiveFps > 0, so the fps that EditMovie._make_segment
\* passes to the extractor (video_meta.effective_fps) is never <= 0.
C25_FpsNeverZero ==
    (pc = "sampled" /\ sampling_fps >= 1) =>
        /\ sampling_step \in Nat
        /\ sampling_step >= 1
        /\ effective_fps[1] > 0
        /\ effective_fps[2] > 0
        /\ original_fps > 0 => effective_fps = Frac(original_fps, sampling_step)
        /\ original_fps <= 0 => effective_fps = <<sampling_fps, 1>>

\* the effective fps has been computed for a source that reports a negative
\* fps: the step is 1 and the effective fps is the sampling fps
C25_Witness ==
    /\ pc = "sampled"
    /\ original_fps < 0
    /\ sampling_fps > 1
    /\ sampling_step = 1
    /\ effective_fps = <<sampling_fps, 1>>

\* ------------------------------------------------ properties: frame loop
\* ceil(n / s) for n >= 0, s >= 1
CeilDiv(n, s) == (n + s - 1) \div s

\* the loop has processed exactly the source frames 0, s, 2s, ... below idx,
\* each once and in order, and bounding_boxes has one entry for each
SampledSoFar ==
    /\ Len(processed_indices) = CeilDiv(Min(idx, total_frames), sampling_step)
    /\ \A k \in 1..Len(processed_indices) : processed_indices[k] = (k - 1) * sampling_step
    /\ Len(bounding_boxes) = Len(processed_indices)

\* the source time k * s / origFps of entry k equals k / effectiveFps (no
\* source time exists when origFps is 0)
TimeBaseOfSource(k) ==
    /\ original_fps # 0
    /\ k * sampling_step * effective_fps[1] = k * effective_fps[2] * original_fps

\* C26 -- Sampling loop and time base, as claimed: for a source with N
\* readable frames and step s >= 1 the loop processes exactly the frames 0, s,
\* 2s, ..., each once and in order, the result has ceil(N / s) entries, entry k
\* is source frame k * s, and its source time k * s / origFps equals
\* k / effectiveFps.
C26_TimeBaseUnconditional ==
    /\ (pc \in {"reading", "loop_done"}) => SampledSoFar
    /\ (pc = "loop_done") =>
          /\ Len(bounding_boxes) = CeilDiv(total_frames, sampling_step)
          /\ \A k \in 0..(Len(bounding_boxes) - 1) : TimeBaseOfSource(k)

\* C26 -- Sampling loop and time base, amended: the frames processed and the
\* length are as claimed; the source time of entry k equals k / effectiveFps
\* when origFps > 0, and when origFps is not positive the step is 1, every
\* frame is processed and effectiveFps is fpsSample.
C26_SamplingLoop ==
    /\ (pc \in {"reading", "loop_done"}) =>
          /\ sampling_step >= 1
          /\ SampledSoFar
    /\ (pc = "loop_done") =>
          /\ idx = total_frames
          /\ Len(bounding_boxes) = CeilDiv(total_frames, sampling_step)
          /\ original_fps > 0 =>
                \A k \in 0..(Len(bounding_boxes) - 1) : TimeBaseOfSource(k)
          /\ original_fps <= 0 =>
                /\ sampling_step = 1
                /\ processed_indices = [k \in 1..total_frames |-> k - 1]
                /\ effective_fps = <<sampling_fps, 1>>

\* the loop has ended on a source of three frames with known fps and step 2:
\* frames 0 and 2 were processed, ceil(3 / 2) = 2 entries
C26_Witness ==
    /\ pc = "loop_done"
    /\ original_fps > 0
    /\ sampling_step = 2
    /\ total_frames = 3
    /\ processed_indices = <<0, 2>>
    /\ Len(bounding_boxes) = 2

\* ------------------------------------------ properties: object inside crop
\* the ideal top-left of axis c, cx - cropW * hRatio, in units of 1 / RatioDen pixel
IdealTopLeft(c) == center[c] - crop_size[c] * anchor[c]

\* C27 -- The tracked object stays inside its crop, as claimed: the emitted
\* integer rectangle contains the object centre, x1 <= cx <= x1 + cropW and
\* y1 <= cy <= y1 + cropH, whether or not a boundary correction occurred; when
\* none occurred x1 and y1 are the ideal values truncated to integers.
C27_ObjectInsideCrop ==
    (pc = "cropped") =>
        /\ \A c \in 1..2 :
              /\ crop_position[c] * RatioDen <= center[c]
              /\ center[c] <= (crop_position[c] + crop_size[c]) * RatioDen
        /\ ~crop_position[3] =>
              \A c \in 1..2 : crop_position[c] = IntOf(IdealTopLeft(c))

\* C27 -- The tracked object stays inside its crop, amended: x1 <= cx and
\* y1 <= cy always; cx <= x1 + cropW (cy <= y1 + cropH) when the ideal value of
\* that axis is a whole number or was snapped to an edge, and otherwise the
\* centre is less than one pixel beyond that edge, cx < x1 + cropW + 1; when no
\* correction occurred x1 and y1 are the ideal values truncated to integers.
C27_ObjectWithinOnePixel ==
    (pc = "cropped") =>
        /\ \A c \in 1..2 :
              /\ crop_position[c] * RatioDen <= center[c]
              /\ center[c] < (crop_position[c] + crop_size[c] + 1) * RatioDen
              /\ (IdealTopLeft(c) % RatioDen = 0 \/ crop_axis(center[c], crop_size[c],
                                                           orig_size[c], anchor[c])[2]) =>
                    center[c] <= (crop_position[c] + crop_size[c]) * RatioDen
        /\ ~crop_position[3] =>
              \A c \in 1..2 : crop_position[c] = IntOf(IdealTopLeft(c))

\* the placer has run without a correction on a centre whose ideal x1 is not
\* a whole number: the truncation moved the rectangle left and the centre lies
\* beyond its right edge
C27_Witness ==
    /\ pc = "cropped"
    /\ ~crop_position[3]
    /\ IdealTopLeft(1) % RatioDen # 0
    /\ crop_position[1] * RatioDen < IdealTopLeft(1)
    /\ center[1] > (crop_position[1] + crop_size[1]) * RatioDen
    /\ crop_size[1] > 0

FrameInRun(i, s) == s.start <= TimeOfFrame(i, fps) /\ TimeOfFrame(i, fps) < s.end

\* C30 -- Hand-without-head mask: unless head detection is disabled, the mask
\* given to the extractor has length min(len(hand), len(head)) and satisfies
\* combined[i] = hand[i] and not head[i] for every i below that length, so a
\* frame with a head detected is never inside a raw run; when head detection
\* is disabled the hand mask is used unchanged.
C30_HandWithoutHead ==
    /\ (pc = "run_combined") =>
          /\ Len(combined_mask) = Min(Len(hand_mask), Len(head_mask))
          /\ \A k \in 1..Len(combined_mask) :
                combined_mask[k] = (hand_mask[k] /\ ~head_mask[k])
    /\ (AfterMakeSegment /\ ~is_ignore_head_detect) =>
          /\ Len(mask) = Min(Len(hand_mask), Len(head_mask))
          /\ \A k \in 1..Len(mask) : mask[k] = (hand_mask[k] /\ ~head_mask[k])
          /\ \A k \in 1..Len(head_mask) :
                head_mask[k] => \A j \in 1..Len(raw_segments) :
                                    ~FrameInRun(k - 1, raw_segments[j])
    /\ (AfterMakeSegment /\ is_ignore_head_detect) =>
          /\ mask = hand_mask
          /\ head_mask = <<>>

\* a run with head detection has made its segments from two frames with a
\* hand, the second of which also shows a head: only frame 0 is in a raw run
C30_Witness ==
    /\ pc = "run_segment"
    /\ ~is_ignore_head_detect
    /\ hand_mask = <<TRUE, TRUE>>
    /\ head_mask = <<FALSE, TRUE>>
    /\ mask = <<TRUE, FALSE>>
    /\ raw_segments = <<Segment(0, TimeOfFrame(1, fps))>>

\* ------------------------------------------- properties: window size parity
\* C29 -- The smoother depends on windowSize only through floor(windowSize / 2):
\* the window sizes 2k and 2k + 1 give the same output for every input, and
\* window size 1, the configured default, is the identity.
C29_WindowSizeParity ==
    (pc = "smoothed") =>
        LET k == window_size \div 2
        IN  /\ smoothed = smooth_positions(positions, 2 * k + 1)
            /\ k >= 1 => smoothed = smooth_positions(positions, 2 * k)
            /\ window_size = DEFAULT_SMOOTH_WINDOW_SIZE => smoothed = positions
            /\ smooth_positions(positions, DEFAULT_SMOOTH_WINDOW_SIZE) = positions

\* the smoother has run with window size 2 on a list it changes: the result
\* is that of window size 3 and not that of window size 1
C29_Witness ==
    /\ pc = "smoothed"
    /\ window_size = 2
    /\ smoothed # positions
    /\ smoothed = smooth_positions(positions, 3)
    /\ smoothed # smooth_positions(positions, 1)

====
